---- MODULE Spec2Model ----
(***************************************************************************)
(* A model of the search orchestration of the Socrates chess engine.      *)
(*                                                                         *)
(* The repository holds several components that do not share state.  A    *)
(* behaviour of the model exercises one of them, named by `component`:    *)
(*   "threads"  : serve_deepening and its slave serve_simple               *)
(*                (src/search/threading.rs), driven by a controller that   *)
(*                sends Search, Stop and Exit commands.                    *)
(*   "searcher" : DeepeningSearcher (src/search/mod.rs) over a lower       *)
(*                SearchExecutor, driven by a client that calls            *)
(*                start_search, try_recv_report and terminate_search.      *)
(*   "search"   : Search::run, the principal variation search of           *)
(*                src/engine/search.rs, over an abstract game, with its    *)
(*                transposition table, move stack and progress callback.   *)
(*   "multipv"  : MultipvSearcher (src/search/mod.rs) over a lower         *)
(*                AspirationSearcher, driven by a client.                  *)
(*   "aspiration" : AspirationSearcher (src/search/mod.rs) with its        *)
(*                window, over a lower SearchExecutor, driven by a client. *)
(*   "board"    : Board (src/position/board.rs): move generation, do_move  *)
(*                and undo_move on the 8x8 board.                          *)
(*   "position" : Position (src/search/position/mod.rs) over the board of  *)
(*                src/position/move_generation.rs.                         *)
(*   "history"  : the same Position, created from a playing history.       *)
(***************************************************************************)
EXTENDS Integers, Sequences, FiniteSets, TLC

VARIABLES
    component,        \* which component this behaviour exercises
    \* ---- what the client has been delivered (both orchestration layers)
    received,         \* the last report delivered, and per search id the number of
                      \* reports with done = true delivered
    completed,        \* depth and value of the deepest completed iteration of the search
    \* ---- serve_deepening / serve_simple
    controller_pc,    \* controller: "running" until it has sent Exit ("exited") or
                      \* dropped the sender of `commands` ("closed")
    next_id,          \* controller: the next fresh search id
    stops_sent,       \* controller: the number of Stop commands sent
    commands,         \* channel controller -> serve_deepening
    slave_commands,   \* channel serve_deepening -> serve_simple
    slave_reports,    \* channel serve_simple -> serve_deepening
    pc,               \* serve_deepening: position in the code
    pending_command,  \* serve_deepening: pending_command
    cmd,              \* serve_deepening: the Search command being served
    current_value,    \* serve_deepening: current_value
    current_depth,    \* serve_deepening: current_depth
    delta,            \* serve_deepening: delta
    alpha,            \* serve_deepening: alpha
    beta,             \* serve_deepening: beta
    slave_report,     \* serve_deepening: the slave's report just received
    slave_pc,         \* serve_simple: position in the code
    slave_pending,    \* serve_simple: pending_command
    slave_cmd,        \* serve_simple: the Search command being served
    \* ---- DeepeningSearcher
    deepening,        \* DeepeningSearcher: params, search_is_terminated, depth, value
    searcher,         \* the lower SearchExecutor: searching, depth, terminate
    searcher_reports, \* the reports the lower SearchExecutor has queued
    \* ---- Search (engine/search.rs)
    search_pc,        \* the owner of the Search: "ready", "running", "ok", "terminated"
    search_result,    \* what the last call of run returned to its caller
    runs,             \* the number of calls of run by the owner
    position,         \* Search.position: the moves played from the root
    tt,               \* the transposition table: hash -> EntryData
    state_stack,      \* Search.state_stack
    moves,            \* Search.moves: the move stack, one move list per saved ply
    unreported_nodes, \* Search.unreported_nodes
    stack,            \* the activation records of the recursive calls of run
    \* ---- MultipvSearcher
    multipv,          \* MultipvSearcher: params, search_is_terminated, values,
                      \* current_move_index
    nested,           \* the lower AspirationSearcher: searching, terminate, params
    nested_reports,   \* the reports the lower searcher has queued
    multipv_pc,       \* the client: "idle", or "searching" until the done report
    multipv_report,   \* the last report try_recv_report has returned
    root,             \* the position the client gave to start_search
    multipv_stored,   \* the last entry write_reslut_to_tt has stored
    \* ---- AspirationSearcher
    aspiration_searcher, \* AspirationSearcher: params, search_is_terminated, lmr_mode,
                      \* alpha, beta, delta, expected_to_fail_high
    aspirated,        \* the lower SearchExecutor: searching, terminate, params, and the
                      \* value of the position it searches
    aspirated_reports, \* the reports the lower SearchExecutor has queued
    aspiration_report, \* the last report try_recv_report has returned
    \* ---- Board (position/board.rs)
    board,            \* the Board, None until it is created
    board_played,     \* the owner's moves played and not taken back, each with the
                      \* board it was played on
    board_op,         \* the owner's last call of do_move or undo_move
    \* ---- Position (search/position/mod.rs)
    node,             \* the Position, None until it is created
    node_played,      \* the owner's moves played and not taken back, each with the
                      \* position it was played on
    node_op,          \* the owner's last call of do_move or undo_move
    node_history,     \* the boards that have occurred before the board of the Position,
                      \* each with the move played on it
    \* ---- Position::qsearch (search/position/mod.rs)
    qnode,            \* the position at the root of the quiescence search: whether
                      \* the side to move is in check, the static evaluation, and
                      \* the moves generate_moves yields in the order remove_best
                      \* hands them out, each with the position it leads to
    qresult,          \* the last call of evaluate_quiescence and what it returned
    \* ---- extract_pv (search/mod.rs)
    pv_tt,            \* the transposition table: position -> entry
    pv_variation      \* the last call of extract_pv and the Variation it returned

observer_vars == <<received, completed>>
threads_vars == <<controller_pc, stops_sent, commands, slave_commands, slave_reports, pc,
                  pending_command, cmd, current_value, current_depth, delta, alpha, beta,
                  slave_report, slave_pc, slave_pending, slave_cmd>>
searcher_vars == <<deepening, searcher, searcher_reports>>
search_vars == <<search_pc, search_result, runs, position, tt, state_stack, moves,
                 unreported_nodes, stack>>
multipv_vars == <<multipv, nested, nested_reports, multipv_pc, multipv_report,
                  root, multipv_stored>>
aspiration_vars == <<aspiration_searcher, aspirated, aspirated_reports, aspiration_report>>
board_vars == <<board, board_played, board_op>>
position_vars == <<node, node_played, node_op, node_history>>
evaluation_vars == <<qnode, qresult, pv_tt, pv_variation>>
vars == <<component, next_id, observer_vars, threads_vars, searcher_vars, search_vars,
          multipv_vars, aspiration_vars, board_vars, position_vars,
          evaluation_vars>>

(* What the actions of one component leave unchanged of the others. *)
outside_threads == <<searcher_vars, search_vars, multipv_vars, aspiration_vars, board_vars,
                     position_vars,
          evaluation_vars>>
outside_searcher == <<threads_vars, search_vars, multipv_vars, aspiration_vars, board_vars,
                      position_vars,
          evaluation_vars>>
outside_search == <<next_id, observer_vars, threads_vars, searcher_vars, multipv_vars,
                    aspiration_vars, board_vars, position_vars,
          evaluation_vars>>
outside_multipv == <<threads_vars, searcher_vars, search_vars, aspiration_vars, board_vars,
                     position_vars,
          evaluation_vars>>
outside_aspiration == <<next_id, observer_vars, threads_vars, searcher_vars, search_vars,
                        multipv_vars, board_vars, position_vars,
          evaluation_vars>>
outside_board == <<threads_vars, searcher_vars, search_vars, multipv_vars, aspiration_vars,
                   position_vars,
          evaluation_vars>>
outside_evaluation == <<next_id, observer_vars, threads_vars, searcher_vars, search_vars,
                       multipv_vars, aspiration_vars, board_vars, position_vars>>
outside_position == <<threads_vars, searcher_vars, search_vars, multipv_vars, aspiration_vars,
                      board_vars,
          evaluation_vars>>

----------------------------------------------------------------------------
(* Bounds of the model. *)
MaxDepth == 5
MaxSearches == 2
MaxStops == 1
MaxQueue == 1

(* chesstypes/value.rs *)
VALUE_MAX == 32767
VALUE_MIN == -VALUE_MAX
VALUE_UNKNOWN == VALUE_MIN - 1

(* The values a search of the model may return, and the windows a client asks. *)
Values == {0, 40}
Windows == {<<VALUE_MIN, VALUE_MAX>>, <<-20, 20>>}
Depths == {MaxDepth}
SearchIds == 1..MaxSearches

max(a, b) == IF a >= b THEN a ELSE b
min(a, b) == IF a <= b THEN a ELSE b

----------------------------------------------------------------------------
(* Messages. The position and the node counts are left out. *)
None == [type |-> "None"]
Search(search_id, depth, lower_bound, upper_bound) ==
    [type |-> "Search", search_id |-> search_id, depth |-> depth,
     lower_bound |-> lower_bound, upper_bound |-> upper_bound]
Stop == [type |-> "Stop"]
Exit == [type |-> "Exit"]
Report(search_id, depth, value, done) ==
    [type |-> "Report", search_id |-> search_id, depth |-> depth, value |-> value,
     done |-> done]

(* The client's record of a report sent on the outward `reports` channel. *)
deliver(rcv, r) ==
    [last |-> r,
     done_count |-> [rcv.done_count EXCEPT ![r.search_id] = @ + (IF r.done THEN 1 ELSE 0)]]
NothingReceived == [last |-> None, done_count |-> [id \in SearchIds |-> 0]]
NothingCompleted == [depth |-> 0, value |-> VALUE_UNKNOWN]

----------------------------------------------------------------------------
(* The controller: the owner of the `commands` sender. *)
send_search ==
    /\ component = "threads"
    /\ controller_pc = "running"
    /\ next_id <= MaxSearches
    /\ \E depth \in Depths, w \in Windows :
          commands' = Append(commands, Search(next_id, depth, w[1], w[2]))
    /\ next_id' = next_id + 1
    /\ UNCHANGED outside_threads
    /\ UNCHANGED <<component, observer_vars, controller_pc, stops_sent, slave_commands,
                   slave_reports, pc, pending_command, cmd, current_value, current_depth,
                   delta, alpha, beta, slave_report, slave_pc, slave_pending, slave_cmd>>

send_stop ==
    /\ component = "threads"
    /\ controller_pc = "running"
    /\ stops_sent < MaxStops
    /\ commands' = Append(commands, Stop)
    /\ stops_sent' = stops_sent + 1
    /\ UNCHANGED outside_threads
    /\ UNCHANGED <<component, observer_vars, controller_pc, next_id, slave_commands,
                   slave_reports, pc, pending_command, cmd, current_value, current_depth,
                   delta, alpha, beta, slave_report, slave_pc, slave_pending, slave_cmd>>

send_exit ==
    /\ component = "threads"
    /\ controller_pc = "running"
    /\ commands' = Append(commands, Exit)
    /\ controller_pc' = "exited"
    /\ UNCHANGED outside_threads
    /\ UNCHANGED <<component, observer_vars, next_id, stops_sent, slave_commands,
                   slave_reports, pc, pending_command, cmd, current_value, current_depth,
                   delta, alpha, beta, slave_report, slave_pc, slave_pending, slave_cmd>>

(* The controller drops the sender of `commands`: the channel is closed, and what has
   been sent can still be received. *)
drop_commands ==
    /\ component = "threads"
    /\ controller_pc = "running"
    /\ controller_pc' = "closed"
    /\ UNCHANGED outside_threads
    /\ UNCHANGED <<component, observer_vars, next_id, stops_sent, commands, slave_commands,
                   slave_reports, pc, pending_command, cmd, current_value, current_depth,
                   delta, alpha, beta, slave_report, slave_pc, slave_pending, slave_cmd>>

----------------------------------------------------------------------------
(* serve_simple: the slave thread. *)

(* The report closure's message (lines 121-128). *)
simple_progress_report(c) == Report(c.search_id, 0, VALUE_UNKNOWN, FALSE)

(* The final message (lines 140-151); `value` is VALUE_UNKNOWN when the search was
   terminated. *)
simple_done_report(c, value) ==
    Report(c.search_id, IF value = VALUE_UNKNOWN THEN 0 ELSE c.depth, value, TRUE)

(* Search::run from where it stands to its next progress callback or to its end: the
   search either calls `report`, which sends a progress message and then looks for a
   command, or returns a value. *)
search_run(c, queue) ==
    \/ /\ Len(queue) < MaxQueue
       /\ slave_reports' = Append(queue, simple_progress_report(c))
       /\ slave_pc' = "search"
       /\ slave_cmd' = c
    \/ \E value \in Values :
          /\ slave_reports' = Append(queue, simple_done_report(c, value))
          /\ slave_pc' = "recv"
          /\ slave_cmd' = None

(* A faulty head of the loop: a Stop that finds the thread idle is not discarded but
   put behind the commands that wait on the channel. *)
mutant_serve_simple_recv_stop ==
    /\ component = "threads"
    /\ slave_pc = "recv"
    /\ slave_pending /= None \/ slave_commands /= <<>>
    /\ LET command == IF slave_pending /= None THEN slave_pending ELSE Head(slave_commands)
           rest == IF slave_pending /= None THEN slave_commands ELSE Tail(slave_commands)
       IN  /\ slave_pending' = None
           /\ slave_commands' = IF command.type = "Stop" THEN Append(rest, Stop) ELSE rest
           /\ CASE command.type = "Search" ->
                     search_run(command, slave_reports)
                [] command.type = "Stop" ->
                     UNCHANGED <<slave_cmd, slave_reports, slave_pc>>
                [] command.type = "Exit" ->
                     /\ slave_pc' = "exited"
                     /\ UNCHANGED <<slave_cmd, slave_reports>>
    /\ UNCHANGED outside_threads
    /\ UNCHANGED <<component, observer_vars, controller_pc, next_id, stops_sent, commands,
                   pc, pending_command, cmd, current_value, current_depth, delta, alpha,
                   beta, slave_report>>

(* A faulty head of the loop: a command on the channel is taken before the pending
   one, which is dropped. *)
mutant_serve_simple_recv ==
    /\ component = "threads"
    /\ slave_pc = "recv"
    /\ slave_pending /= None \/ slave_commands /= <<>>
    /\ LET command == IF slave_commands = <<>> THEN slave_pending ELSE Head(slave_commands)
       IN  /\ slave_pending' = None
           /\ slave_commands' = IF slave_commands = <<>> THEN slave_commands
                                ELSE Tail(slave_commands)
           /\ CASE command.type = "Search" ->
                     search_run(command, slave_reports)
                [] command.type = "Stop" ->
                     UNCHANGED <<slave_cmd, slave_reports, slave_pc>>
                [] command.type = "Exit" ->
                     /\ slave_pc' = "exited"
                     /\ UNCHANGED <<slave_cmd, slave_reports>>
    /\ UNCHANGED outside_threads
    /\ UNCHANGED <<component, observer_vars, controller_pc, next_id, stops_sent, commands,
                   pc, pending_command, cmd, current_value, current_depth, delta, alpha,
                   beta, slave_report>>

(* Lines 112-118, 156, 158: take the pending command or block on the channel. *)
serve_simple_recv ==
    /\ component = "threads"
    /\ slave_pc = "recv"
    /\ slave_pending /= None \/ slave_commands /= <<>>
    /\ LET command == IF slave_pending /= None THEN slave_pending ELSE Head(slave_commands)
       IN  /\ slave_pending' = None
           /\ slave_commands' = IF slave_pending /= None THEN slave_commands
                                ELSE Tail(slave_commands)
           /\ CASE command.type = "Search" ->
                     search_run(command, slave_reports)
                [] command.type = "Stop" ->
                     UNCHANGED <<slave_cmd, slave_reports, slave_pc>>
                [] command.type = "Exit" ->
                     /\ slave_pc' = "exited"
                     /\ UNCHANGED <<slave_cmd, slave_reports>>
    /\ UNCHANGED outside_threads
    /\ UNCHANGED <<component, observer_vars, controller_pc, next_id, stops_sent, commands,
                   pc, pending_command, cmd, current_value, current_depth, delta, alpha,
                   beta, slave_report>>

(* A faulty report closure: it never looks for a command. *)
mutant_serve_simple_check ==
    /\ component = "threads"
    /\ slave_pc = "search"
    /\ search_run(slave_cmd, slave_reports)
    /\ UNCHANGED outside_threads
    /\ UNCHANGED <<component, observer_vars, controller_pc, next_id, stops_sent, commands,
                   pc, pending_command, cmd, current_value, current_depth, delta, alpha,
                   beta, slave_report, slave_pending, slave_commands>>

(* Lines 130-152: the command check of the report closure. A command ends the search
   with Err, which unwrap_or turns into VALUE_UNKNOWN. *)
serve_simple_check ==
    /\ component = "threads"
    /\ slave_pc = "search"
    /\ IF slave_commands /= <<>>
       THEN /\ slave_pending' = Head(slave_commands)
            /\ slave_commands' = Tail(slave_commands)
            /\ slave_reports' = Append(slave_reports,
                                       simple_done_report(slave_cmd, VALUE_UNKNOWN))
            /\ slave_pc' = "recv"
            /\ slave_cmd' = None
       ELSE /\ search_run(slave_cmd, slave_reports)
            /\ UNCHANGED <<slave_pending, slave_commands>>
    /\ UNCHANGED outside_threads
    /\ UNCHANGED <<component, observer_vars, controller_pc, next_id, stops_sent, commands,
                   pc, pending_command, cmd, current_value, current_depth, delta, alpha,
                   beta, slave_report>>

----------------------------------------------------------------------------
(* serve_deepening: the master thread. *)
INITIAL_DELTA == 17

(* A faulty progress message: it advertises the depth being searched. *)
mutant_progress_report(c, depth, value) == Report(c.search_id, depth, value, FALSE)

(* Lines 275-282: the message sent for every message of the slave. *)
deepening_progress_report(c, depth, value) == Report(c.search_id, depth - 1, value, FALSE)

(* Lines 322-329: the message sent for every completed depth. *)
deepening_depth_report(c, depth, value) == Report(c.search_id, depth, value, FALSE)

(* Lines 336-343: the final message. *)
deepening_final_report(c, depth, value) == Report(c.search_id, depth - 1, value, TRUE)

(* Lines 242-248: the aspiration window a depth starts with. *)
initial_window(c, depth, value) ==
    IF depth < 5
    THEN <<c.lower_bound, c.upper_bound>>
    ELSE <<max(c.lower_bound, value - INITIAL_DELTA),
           min(value + INITIAL_DELTA, c.upper_bound)>>

(* A faulty head of 'aspiration: an empty window is searched as it is. *)
mutant_checked_window(c, a, b) == <<a, b>>

(* Lines 251-256: an empty window is replaced by the bounds of the command. *)
checked_window(c, a, b) == IF a >= b THEN <<c.lower_bound, c.upper_bound>> ELSE <<a, b>>

(* Lines 313-316. *)
increase_delta(d) == LET e == d + (3 * d) \div 8 IN IF e > 1500 THEN 1000000 ELSE e

(* Lines 251-266, the head of 'aspiration: command the slave to search the window. *)
aspiration(c, depth, a, b) ==
    LET w == checked_window(c, a, b)
    IN  /\ alpha' = w[1]
        /\ beta' = w[2]
        /\ slave_commands' = Append(slave_commands, Search(depth, depth, w[1], w[2]))
        /\ pc' = "report"

(* Lines 227-266, the head of 'depthloop. *)
depthloop(c, depth, value) ==
    IF depth <= c.depth
    THEN LET w == initial_window(c, depth, value)
         IN  /\ delta' = INITIAL_DELTA
             /\ aspiration(c, depth, w[1], w[2])
    ELSE /\ pc' = "final"
         /\ UNCHANGED <<delta, alpha, beta, slave_commands>>

(* A faulty head of the loop: Exit is not passed on to the slave. *)
mutant_serve_deepening_recv ==
    /\ component = "threads"
    /\ pc = "recv"
    /\ pending_command /= None \/ commands /= <<>> \/ controller_pc = "closed"
    /\ LET command == IF pending_command /= None THEN pending_command
                      ELSE IF commands /= <<>> THEN Head(commands)
                      ELSE Exit
       IN  /\ pending_command' = None
           /\ commands' = IF pending_command /= None \/ commands = <<>> THEN commands
                          ELSE Tail(commands)
           /\ CASE command.type = "Search" ->
                     /\ cmd' = command
                     /\ current_value' = VALUE_UNKNOWN
                     /\ current_depth' = 1
                     /\ completed' = NothingCompleted
                     /\ depthloop(command, 1, VALUE_UNKNOWN)
                [] command.type = "Stop" ->
                     /\ slave_commands' = Append(slave_commands, Stop)
                     /\ UNCHANGED <<cmd, current_value, current_depth, delta, alpha, beta,
                                    pc, completed>>
                [] command.type = "Exit" ->
                     /\ pc' = "join"
                     /\ UNCHANGED <<cmd, current_value, current_depth, delta, alpha, beta,
                                    completed, slave_commands>>
    /\ UNCHANGED outside_threads
    /\ UNCHANGED <<component, received, controller_pc, next_id, stops_sent, slave_reports,
                   slave_report, slave_pc, slave_pending, slave_cmd>>

(* Lines 215-226 and 347-355: take the pending command or block on the channel; recv
   on a closed and empty channel is an error, which `or` turns into Exit. *)
serve_deepening_recv ==
    /\ component = "threads"
    /\ pc = "recv"
    /\ pending_command /= None \/ commands /= <<>> \/ controller_pc = "closed"
    /\ LET command == IF pending_command /= None THEN pending_command
                      ELSE IF commands /= <<>> THEN Head(commands)
                      ELSE Exit
       IN  /\ pending_command' = None
           /\ commands' = IF pending_command /= None \/ commands = <<>> THEN commands
                          ELSE Tail(commands)
           /\ CASE command.type = "Search" ->
                     /\ cmd' = command
                     /\ current_value' = VALUE_UNKNOWN
                     /\ current_depth' = 1
                     /\ completed' = NothingCompleted
                     /\ depthloop(command, 1, VALUE_UNKNOWN)
                [] command.type = "Stop" ->
                     /\ slave_commands' = Append(slave_commands, Stop)
                     /\ UNCHANGED <<cmd, current_value, current_depth, delta, alpha, beta,
                                    pc, completed>>
                [] command.type = "Exit" ->
                     /\ slave_commands' = Append(slave_commands, Exit)
                     /\ pc' = "join"
                     /\ UNCHANGED <<cmd, current_value, current_depth, delta, alpha, beta,
                                    completed>>
    /\ UNCHANGED outside_threads
    /\ UNCHANGED <<component, received, controller_pc, next_id, stops_sent, slave_reports,
                   slave_report, slave_pc, slave_pending, slave_cmd>>

(* Lines 273-283: receive a message of the slave and send a progress message. *)
serve_deepening_report ==
    /\ component = "threads"
    /\ pc = "report"
    /\ slave_reports /= <<>>
    /\ slave_report' = Head(slave_reports)
    /\ slave_reports' = Tail(slave_reports)
    /\ received' = deliver(received, deepening_progress_report(cmd, current_depth,
                                                                current_value))
    /\ pc' = "reported"
    /\ UNCHANGED outside_threads
    /\ UNCHANGED <<component, completed, controller_pc, next_id, stops_sent, commands,
                   slave_commands, pending_command, cmd, current_value, current_depth,
                   delta, alpha, beta, slave_pc, slave_pending, slave_cmd>>

(* Lines 303-316: after 'report, either widen the window and search again or leave
   'aspiration. *)
after_report(c, depth, value) ==
    IF value <= alpha /\ c.lower_bound < alpha
    THEN /\ delta' = increase_delta(delta)
         /\ aspiration(c, depth, max(c.lower_bound, value - delta), beta)
    ELSE IF value >= beta /\ c.upper_bound > beta
    THEN /\ delta' = increase_delta(delta)
         /\ aspiration(c, depth, alpha, min(value + delta, c.upper_bound))
    ELSE /\ pc' = "completed"
         /\ UNCHANGED <<delta, alpha, beta, slave_commands>>

(* The deepest iteration that has completed: a search of the slave that was not
   terminated, received while no command was pending, whose value does not call for
   another search of the same depth. *)
note_completed(cpl, c, r, pending, a, b) ==
    IF /\ r.done
       /\ r.depth > 0
       /\ pending = None
       /\ ~(r.value <= a /\ c.lower_bound < a)
       /\ ~(r.value >= b /\ c.upper_bound > b)
    THEN [depth |-> r.depth, value |-> r.value]
    ELSE cpl

(* Lines 284-298: what is done with the message of the slave. *)
serve_deepening_reported ==
    /\ component = "threads"
    /\ pc = "reported"
    /\ completed' = note_completed(completed, cmd, slave_report, pending_command, alpha, beta)
    /\ IF pending_command = None
       THEN IF slave_report.done
            THEN /\ current_value' = slave_report.value
                 /\ after_report(cmd, current_depth, slave_report.value)
                 /\ UNCHANGED <<commands, pending_command>>
            ELSE /\ IF commands /= <<>>
                    THEN /\ slave_commands' = Append(slave_commands, Stop)
                         /\ pending_command' = Head(commands)
                         /\ commands' = Tail(commands)
                    ELSE UNCHANGED <<slave_commands, pending_command, commands>>
                 /\ pc' = "report"
                 /\ UNCHANGED <<current_value, delta, alpha, beta>>
       ELSE /\ pc' = IF slave_report.done THEN "final" ELSE "report"
            /\ UNCHANGED <<commands, pending_command, current_value, delta, alpha, beta,
                           slave_commands>>
    /\ slave_report' = None
    /\ UNCHANGED outside_threads
    /\ UNCHANGED <<component, received, controller_pc, next_id, stops_sent, slave_reports,
                   cmd, current_depth, slave_pc, slave_pending, slave_cmd>>

(* Lines 320-331 and the head of the next turn of 'depthloop. *)
serve_deepening_completed ==
    /\ component = "threads"
    /\ pc = "completed"
    /\ received' = deliver(received, deepening_depth_report(cmd, current_depth,
                                                             current_value))
    /\ current_depth' = current_depth + 1
    /\ depthloop(cmd, current_depth + 1, current_value)
    /\ UNCHANGED outside_threads
    /\ UNCHANGED <<component, completed, controller_pc, next_id, stops_sent, commands,
                   slave_reports, pending_command, cmd, current_value, slave_report,
                   slave_pc, slave_pending, slave_cmd>>

(* Lines 335-345: the search is done; the variables of the Search arm go out of
   scope. *)
serve_deepening_final ==
    /\ component = "threads"
    /\ pc = "final"
    /\ received' = deliver(received, deepening_final_report(cmd, current_depth,
                                                             current_value))
    /\ pc' = "recv"
    /\ current_value' = VALUE_UNKNOWN
    /\ current_depth' = 1
    /\ delta' = INITIAL_DELTA
    /\ alpha' = VALUE_MIN
    /\ beta' = VALUE_MAX
    /\ UNCHANGED outside_threads
    /\ UNCHANGED <<component, completed, controller_pc, next_id, stops_sent, commands,
                   slave_commands, slave_reports, pending_command, cmd, slave_report,
                   slave_pc, slave_pending, slave_cmd>>

(* Line 358: slave.join(). *)
serve_deepening_join ==
    /\ component = "threads"
    /\ pc = "join"
    /\ slave_pc = "exited"
    /\ pc' = "exited"
    /\ UNCHANGED outside_threads
    /\ UNCHANGED <<component, observer_vars, controller_pc, next_id, stops_sent, commands,
                   slave_commands, slave_reports, pending_command, cmd, current_value,
                   current_depth, delta, alpha, beta, slave_report, slave_pc,
                   slave_pending, slave_cmd>>

----------------------------------------------------------------------------
(* DeepeningSearcher over a lower SearchExecutor. *)
SearchParams(search_id, depth) ==
    [type |-> "SearchParams", search_id |-> search_id, depth |-> depth]

(* SearchExecutor::start_search of the lower searcher. *)
searcher_start_search(depth) == [searching |-> TRUE, depth |-> depth, terminate |-> FALSE]

(* The lower searcher, while it searches, queues progress reports. *)
searcher_progress ==
    /\ component = "searcher"
    /\ searcher.searching
    /\ Len(searcher_reports) < MaxQueue
    /\ searcher_reports' = Append(searcher_reports, Report(0, 0, VALUE_UNKNOWN, FALSE))
    /\ UNCHANGED <<component, next_id, observer_vars, outside_searcher, deepening,
                   searcher>>

(* The lower searcher ends its search with one done report: the depth and the value
   of the search, or depth 0 and VALUE_UNKNOWN when it has been terminated. A search
   may also complete although its termination has been requested. *)
searcher_done ==
    /\ component = "searcher"
    /\ searcher.searching
    /\ \/ \E v \in Values :
             searcher_reports' = Append(searcher_reports, Report(0, searcher.depth, v, TRUE))
       \/ /\ searcher.terminate
          /\ searcher_reports' = Append(searcher_reports, Report(0, 0, VALUE_UNKNOWN, TRUE))
    /\ searcher' = [searcher EXCEPT !.searching = FALSE]
    /\ UNCHANGED <<component, next_id, observer_vars, outside_searcher, deepening>>

(* DeepeningSearcher::search_next_depth, lines 271-277. *)
search_next_depth(self) == searcher_start_search(self.depth + 1)

(* Whether the client may start a search: the previous one is done. *)
search_in_progress ==
    /\ deepening.params /= None
    /\ received.done_count[deepening.params.search_id] = 0

(* DeepeningSearcher::start_search, lines 292-305. *)
deepening_start_search ==
    /\ component = "searcher"
    /\ ~search_in_progress
    /\ next_id <= MaxSearches
    /\ \E depth \in Depths :
          LET self == [params |-> SearchParams(next_id, depth),
                       search_is_terminated |-> FALSE,
                       depth |-> 0,
                       value |-> VALUE_UNKNOWN]
          IN  /\ deepening' = self
              /\ searcher' = search_next_depth(self)
    /\ next_id' = next_id + 1
    /\ completed' = NothingCompleted
    /\ UNCHANGED <<component, received, outside_searcher, searcher_reports>>

(* DeepeningSearcher::terminate_search, lines 341-344. *)
deepening_terminate_search ==
    /\ component = "searcher"
    /\ search_in_progress
    /\ ~deepening.search_is_terminated
    /\ deepening' = [deepening EXCEPT !.search_is_terminated = TRUE]
    /\ searcher' = [searcher EXCEPT !.terminate = TRUE]
    /\ UNCHANGED <<component, next_id, observer_vars, outside_searcher, searcher_reports>>

(* A faulty report: `done` of the lower report is passed through. *)
mutant_done_report(self, r) ==
    IF r.done /\ ~self.search_is_terminated
    THEN Report(self.params.search_id, r.depth, r.value, TRUE)
    ELSE Report(self.params.search_id, self.depth, self.value, r.done)

(* A faulty report: depth and value of the lower report are passed through. *)
mutant_depth_report(self, r) ==
    IF r.done /\ ~self.search_is_terminated
    THEN Report(self.params.search_id, r.depth, r.value, ~(r.depth < self.params.depth))
    ELSE Report(self.params.search_id, r.depth, r.value, r.done)

(* The report DeepeningSearcher::try_recv_report returns, lines 314-333. *)
deepening_report(self, r) ==
    IF r.done /\ ~self.search_is_terminated
    THEN Report(self.params.search_id, r.depth, r.value, ~(r.depth < self.params.depth))
    ELSE Report(self.params.search_id, self.depth, self.value, r.done)

(* A faulty test: the termination request is not looked at. *)
mutant_continues(self, r) == r.done /\ r.depth < self.params.depth

(* Whether DeepeningSearcher::try_recv_report starts the next depth, lines 322-330. *)
deepening_continues(self, r) ==
    r.done /\ ~self.search_is_terminated /\ r.depth < self.params.depth

(* The deepest search the lower searcher has completed before a termination was
   requested. *)
note_search_done(cpl, self, r) ==
    IF r.done /\ r.depth > 0 /\ ~self.search_is_terminated
    THEN [depth |-> r.depth, value |-> r.value]
    ELSE cpl

(* DeepeningSearcher::try_recv_report, lines 307-335, when the lower searcher has a
   report (otherwise the call returns the error and changes nothing). *)
deepening_try_recv_report ==
    /\ component = "searcher"
    /\ searcher_reports /= <<>>
    /\ LET r == Head(searcher_reports)
           self == IF r.done /\ ~deepening.search_is_terminated
                   THEN [deepening EXCEPT !.depth = r.depth, !.value = r.value]
                   ELSE deepening
       IN  /\ searcher_reports' = Tail(searcher_reports)
           /\ deepening' = self
           /\ searcher' = IF deepening_continues(deepening, r)
                          THEN search_next_depth(self)
                          ELSE searcher
           /\ received' = deliver(received, deepening_report(deepening, r))
           /\ completed' = note_search_done(completed, deepening, r)
    /\ UNCHANGED <<component, next_id, outside_searcher>>

----------------------------------------------------------------------------
ThreadsInit ==
    /\ controller_pc = "running"
    /\ next_id = 1
    /\ stops_sent = 0
    /\ commands = <<>>
    /\ slave_commands = <<>>
    /\ slave_reports = <<>>
    /\ pc = "recv"
    /\ pending_command = None
    /\ cmd = None
    /\ current_value = VALUE_UNKNOWN
    /\ current_depth = 1
    /\ delta = INITIAL_DELTA
    /\ alpha = VALUE_MIN
    /\ beta = VALUE_MAX
    /\ slave_report = None
    /\ slave_pc = "recv"
    /\ slave_pending = None
    /\ slave_cmd = None

ObserverInit ==
    /\ received = NothingReceived
    /\ completed = NothingCompleted

Controller == send_search \/ send_stop \/ send_exit \/ drop_commands
Slave == serve_simple_recv \/ serve_simple_check
Master ==
    \/ serve_deepening_recv
    \/ serve_deepening_report
    \/ serve_deepening_reported
    \/ serve_deepening_completed
    \/ serve_deepening_final
    \/ serve_deepening_join

SearcherInit ==
    /\ deepening = [params |-> None, search_is_terminated |-> FALSE, depth |-> 0,
                    value |-> VALUE_UNKNOWN]
    /\ searcher = [searching |-> FALSE, depth |-> 0, terminate |-> FALSE]
    /\ searcher_reports = <<>>

----------------------------------------------------------------------------
(* Search (engine/search.rs): the principal variation search.

   The game is abstract.  A position is the sequence of the moves played from the
   root; a move may be played once in a game, and the game is over when the moves
   played sum up to more than Branching, so that some positions have no legal move,
   and two orders of the same moves lead to the same position (a transposition: the
   same hash).  Evaluations are functions of the
   hash.  The node counts the callback is given are left out. *)
Branching == 3
MaxPly == 3
MaxRuns == 2
(* NODE_COUNT_REPORT_INTERVAL is 10000 in engine/search.rs; the model scales it down
   so that the callback is called within a small tree. *)
ReportInterval == 1

Moves == 1..Branching
Plies == 1..MaxPly

Last(s) == s[Len(s)]
Pop(s) == SubSeq(s, 1, Len(s) - 1)
SetLast(s, x) == [s EXCEPT ![Len(s)] = x]

RECURSIVE SumSeq(_)
SumSeq(s) == IF s = <<>> THEN 0 ELSE Head(s) + SumSeq(Tail(s))

hash(p) == [m \in Moves |-> Cardinality({i \in DOMAIN p : p[i] = m})]
legal(p, m) == hash(p)[m] = 0 /\ SumSeq(p) <= Branching
is_check(p) == SumSeq(p) % 2 = 1
evaluate_static(p) == ((SumSeq(p) * 13 + Len(p) * 7) % 41) - 20
evaluate_final(p) == IF is_check(p) THEN VALUE_MIN ELSE 0
(* The quiescence search of the model stands pat: the value is the static evaluation,
   and one node is searched. *)
evaluate_quiescence(p, lower_bound, upper_bound, static_evaluation) ==
    [value |-> static_evaluation, nodes |-> 1]

EntryData(value, bound, depth, move16, eval_value) ==
    [value |-> value, bound |-> bound, depth |-> depth, move16 |-> move16,
     eval_value |-> eval_value]
NodeState(phase, entry) == [phase |-> phase, entry |-> entry]
Ok(value) == [type |-> "Ok", value |-> value]
TerminatedSearch == [type |-> "Err"]

(* One activation record of run: its parameters and locals, and where it stands:
   "begin" at line 247, "moves" at the head of the loop of line 282, "called" inside
   a recursive call, "return" with `value` to hand to its caller, "terminated" with
   the termination signal to hand to its caller. *)
Frame(lower, upper, depth) ==
    [alpha |-> lower, beta |-> upper, depth |-> depth, pc |-> "begin",
     bound |-> "BOUND_UPPER", best_move |-> 0, no_moves_yet |-> TRUE, m |-> 0,
     window |-> "full", value |-> 0, played |-> <<>>, entered |-> None]

(* What a call of run finds when it is entered: the ply of the move stack, the length
   of the node-state stack, and the position. *)
Entered(mv, states, p) == [ply |-> Len(mv), states |-> Len(states), position |-> p]

(* A faulty choice of the window: every move is searched with the full window. *)
mutant_recursive_call(f) == Frame(-f.beta, -f.alpha, f.depth - 1)

(* Lines 286-302 of run: the call for the move just played, with the full window for
   the first move of the node and the null window above alpha for every later one. *)
recursive_call(f) ==
    IF f.no_moves_yet THEN Frame(-f.beta, -f.alpha, f.depth - 1)
    ELSE Frame(-f.alpha - 1, -f.alpha, f.depth - 1)

node_begin(p, t) ==
    IF hash(p) \in DOMAIN t THEN t[hash(p)]
    ELSE EntryData(0, "BOUND_NONE", 0, 0, evaluate_static(p))

(* A faulty node_end: the move list of the node is never restored. *)
mutant_node_end(ns, mv) == mv

(* The move stack after node_end: a node that is not pristine restores its list. *)
node_end(ns, mv) == IF ns.phase = "Pristine" THEN mv ELSE Pop(mv)

store(t, p, entry, value, bound, depth, best_move) ==
    LET move16 == IF best_move = 0 THEN entry.move16 ELSE best_move
    IN  (hash(p) :> EntryData(value, bound, depth, move16, entry.eval_value)) @@ t

report_progress(unreported, new_nodes) ==
    LET n == unreported + new_nodes
    IN  [called |-> n > ReportInterval,
         unreported_nodes |-> IF n > ReportInterval THEN 0 ELSE n]

(* A faulty do_move: the hash move stays in the list of the generated moves. *)
mutant_Search_do_move(ns, mv, p) ==
    LET saved == IF ns.phase = "Pristine" THEN Append(mv, {}) ELSE mv
        move16 == ns.entry.move16
    IN  IF ns.phase = "Pristine" /\ move16 /= 0 /\ legal(p, move16)
        THEN [m |-> move16, phase |-> "TriedHashMove", moves |-> saved,
              position |-> Append(p, move16)]
        ELSE LET generated == IF ns.phase \in {"Pristine", "TriedHashMove"}
                              THEN SetLast(saved, Last(saved) \cup Moves)
                              ELSE saved
                 playable == {x \in Last(generated) : legal(p, x)}
             IN  IF playable = {}
                 THEN [m |-> 0, phase |-> "GeneratedMoves",
                       moves |-> SetLast(generated, {}), position |-> p]
                 ELSE LET m == CHOOSE x \in playable : \A y \in playable : x <= y
                      IN  [m |-> m, phase |-> "GeneratedMoves",
                           moves |-> SetLast(generated,
                                             {x \in Last(generated) : x > m}),
                           position |-> Append(p, m)]

(* do_move: the hash move first, then the generated moves, the best (here the
   lowest) first; m = 0 stands for None. *)
Search_do_move(ns, mv, p) ==
    LET saved == IF ns.phase = "Pristine" THEN Append(mv, {}) ELSE mv
        move16 == ns.entry.move16
    IN  IF ns.phase = "Pristine" /\ move16 /= 0 /\ legal(p, move16)
        THEN [m |-> move16, phase |-> "TriedHashMove", moves |-> saved,
              position |-> Append(p, move16)]
        ELSE LET generated == IF ns.phase \in {"Pristine", "TriedHashMove"}
                              THEN SetLast(saved, (Last(saved) \cup Moves) \ {move16})
                              ELSE saved
                 playable == {x \in Last(generated) : legal(p, x)}
             IN  IF playable = {}
                 THEN [m |-> 0, phase |-> "GeneratedMoves",
                       moves |-> SetLast(generated, {}), position |-> p]
                 ELSE LET m == CHOOSE x \in playable : \A y \in playable : x <= y
                      IN  [m |-> m, phase |-> "GeneratedMoves",
                           moves |-> SetLast(generated,
                                             {x \in Last(generated) : x > m}),
                           position |-> Append(p, m)]

Search_undo_move(p) == Pop(p)

(* Search::new on a root position, as the owner of the search creates it. *)
Search_new ==
    /\ component = "search"
    /\ search_pc = "reset"
    /\ runs < MaxRuns
    /\ position' = <<>>
    /\ state_stack' = <<>>
    /\ unreported_nodes' = 0
    /\ search_pc' = "ready"
    /\ UNCHANGED <<component, outside_search, search_result, runs, tt, moves, stack>>

(* The owner's call of run. *)
Search_run ==
    /\ component = "search"
    /\ search_pc = "ready"
    /\ \E depth \in Plies, w \in Windows : stack' = <<Frame(w[1], w[2], depth)>>
    /\ search_pc' = "running"
    /\ runs' = runs + 1
    /\ UNCHANGED <<component, outside_search, search_result, position, tt, state_stack,
                   moves, unreported_nodes>>

Search_reset ==
    /\ component = "search"
    /\ search_pc \in {"ok", "terminated"}
    /\ moves' = SubSeq(moves, 1, 1)
    /\ state_stack' = <<>>
    /\ unreported_nodes' = 0
    /\ search_pc' = "reset"
    /\ UNCHANGED <<component, outside_search, search_result, runs, position, tt, stack>>

(* Lines 333-335 of run: store, node_end, Ok(alpha), for the node of the top record. *)
run_end(f, ns, mv, p, a, bound, best_move) ==
    /\ tt' = store(tt, p, ns.entry, a, bound, f.depth, best_move)
    /\ state_stack' = Pop(state_stack)
    /\ moves' = node_end(ns, mv)
    /\ stack' = SetLast(stack, [f EXCEPT !.pc = "return", !.value = a, !.alpha = a,
                                         !.bound = bound, !.best_move = best_move])

(* run, lines 247-277: node_begin, the cutoff by the transposition table, and the
   leaf. *)
run_begin ==
    /\ component = "search"
    /\ search_pc = "running"
    /\ Last(stack).pc = "begin"
    /\ LET f == [Last(stack) EXCEPT !.entered = Entered(moves, state_stack, position)]
           entry == node_begin(position, tt)
           ns == NodeState("Pristine", entry)
           cutoff == /\ entry.depth >= f.depth
                     /\ \/ entry.value >= f.beta /\ entry.bound = "BOUND_LOWER"
                        \/ entry.value <= f.alpha /\ entry.bound = "BOUND_UPPER"
                        \/ entry.bound = "BOUND_EXACT"
       IN  IF cutoff
           THEN /\ stack' = SetLast(stack, [f EXCEPT !.pc = "return",
                                                     !.value = entry.value])
                /\ UNCHANGED <<tt, state_stack, moves, unreported_nodes>>
           ELSE IF f.depth = 0
           THEN LET q == evaluate_quiescence(position, f.alpha, f.beta,
                                             entry.eval_value)
                    rp == report_progress(unreported_nodes, q.nodes)
                IN  /\ unreported_nodes' = rp.unreported_nodes
                    /\ \E terminate \in (IF rp.called THEN BOOLEAN ELSE {FALSE}) :
                          IF terminate
                          THEN /\ stack' = SetLast(stack,
                                                   [f EXCEPT !.pc = "terminated"])
                               /\ state_stack' = Append(state_stack, ns)
                               /\ UNCHANGED <<tt, moves>>
                          ELSE /\ tt' = store(tt, position, entry,
                                              IF q.value >= f.beta THEN f.beta
                                              ELSE max(q.value, f.alpha),
                                              IF q.value >= f.beta THEN "BOUND_LOWER"
                                              ELSE IF q.value > f.alpha
                                                   THEN "BOUND_EXACT"
                                                   ELSE "BOUND_UPPER",
                                              f.depth, 0)
                               /\ stack' = SetLast(stack,
                                     [f EXCEPT !.pc = "return",
                                               !.value = IF q.value >= f.beta
                                                         THEN f.beta
                                                         ELSE max(q.value, f.alpha)])
                               /\ UNCHANGED <<state_stack, moves>>
           ELSE /\ state_stack' = Append(state_stack, ns)
                /\ stack' = SetLast(stack, [f EXCEPT !.pc = "moves"])
                /\ UNCHANGED <<tt, moves, unreported_nodes>>
    /\ UNCHANGED <<component, outside_search, search_pc, search_result, runs, position>>

(* run, lines 282-304 and 327-335: the next move is played and a recursive call is
   made, or no move is left and the node ends. *)
run_try_move ==
    /\ component = "search"
    /\ search_pc = "running"
    /\ Last(stack).pc = "moves"
    /\ LET f == Last(stack)
           ns == Last(state_stack)
           dm == Search_do_move(ns, moves, position)
           rp == report_progress(unreported_nodes, 1)
       IN  IF dm.m /= 0
           THEN /\ position' = dm.position
                /\ moves' = dm.moves
                /\ state_stack' = SetLast(state_stack, [ns EXCEPT !.phase = dm.phase])
                /\ unreported_nodes' = rp.unreported_nodes
                /\ \E terminate \in (IF rp.called THEN BOOLEAN ELSE {FALSE}) :
                      IF terminate
                      THEN stack' = SetLast(stack, [f EXCEPT !.pc = "terminated",
                                                             !.m = dm.m,
                                                             !.played = Append(@, dm.m)])
                      ELSE stack' =
                             Append(SetLast(stack,
                                       [f EXCEPT !.pc = "called", !.m = dm.m,
                                                 !.no_moves_yet = FALSE,
                                                 !.played = Append(@, dm.m),
                                                 !.window = IF f.no_moves_yet
                                                            THEN "full" ELSE "null"]),
                                    recursive_call(f))
                /\ UNCHANGED tt
           ELSE /\ run_end(f, [ns EXCEPT !.phase = dm.phase], dm.moves, position,
                           IF f.no_moves_yet THEN evaluate_final(position)
                           ELSE f.alpha,
                           IF f.no_moves_yet THEN "BOUND_EXACT" ELSE f.bound,
                           f.best_move)
                /\ UNCHANGED <<position, unreported_nodes>>
    /\ UNCHANGED <<component, outside_search, search_pc, search_result, runs>>

(* A call of run returns Ok(value): to the owner, or to the caller's lines 291-323:
   the re-search with the full window, or undo_move and the look at the value. *)
run_return ==
    /\ component = "search"
    /\ search_pc = "running"
    /\ Last(stack).pc = "return"
    /\ LET rest == Pop(stack)
           x == -Last(stack).value
       IN  IF rest = <<>>
           THEN /\ stack' = <<>>
                /\ search_pc' = "ok"
                /\ search_result' = Ok(Last(stack).value)
                /\ UNCHANGED <<position, tt, state_stack, moves>>
           ELSE LET f == Last(rest)
                IN  /\ UNCHANGED <<search_pc, search_result>>
                    /\ IF f.window = "null" /\ x > f.alpha
                       THEN /\ stack' = Append(SetLast(rest,
                                                  [f EXCEPT !.window = "research"]),
                                               Frame(-f.beta, -f.alpha, f.depth - 1))
                            /\ UNCHANGED <<position, tt, state_stack, moves>>
                       ELSE /\ position' = Search_undo_move(position)
                            /\ IF x >= f.beta
                               THEN /\ tt' = store(tt, position', Last(state_stack).entry,
                                                   f.beta, "BOUND_LOWER", f.depth, f.m)
                                    /\ state_stack' = Pop(state_stack)
                                    /\ moves' = node_end(Last(state_stack), moves)
                                    /\ stack' = SetLast(rest,
                                          [f EXCEPT !.pc = "return", !.value = f.beta,
                                                    !.alpha = f.beta,
                                                    !.bound = "BOUND_LOWER",
                                                    !.best_move = f.m])
                               ELSE /\ stack' = SetLast(rest,
                                          IF x > f.alpha
                                          THEN [f EXCEPT !.pc = "moves", !.alpha = x,
                                                         !.bound = "BOUND_EXACT",
                                                         !.best_move = f.m]
                                          ELSE [f EXCEPT !.pc = "moves"])
                                    /\ UNCHANGED <<tt, state_stack, moves>>
    /\ UNCHANGED <<component, outside_search, runs, unreported_nodes>>

(* A variant of the unwinding that stores what the aborted node has found so far
   before it hands the signal on. *)
mutant_run_terminated ==
    /\ component = "search"
    /\ search_pc = "running"
    /\ Last(stack).pc = "terminated"
    /\ tt' = store(tt, position, Last(state_stack).entry, Last(stack).alpha,
                   Last(stack).bound, Last(stack).depth, Last(stack).best_move)
    /\ stack' = IF Len(stack) = 1 THEN <<>>
                ELSE SetLast(Pop(stack), [Last(Pop(stack)) EXCEPT !.pc = "terminated"])
    /\ search_pc' = IF Len(stack) = 1 THEN "terminated" ELSE search_pc
    /\ search_result' = IF Len(stack) = 1 THEN TerminatedSearch ELSE search_result
    /\ UNCHANGED <<component, outside_search, runs, position, state_stack, moves,
                   unreported_nodes>>

(* A call of run returns Err(TerminatedSearch): `try!` hands it to the caller's
   caller at once, skipping undo_move, store and node_end. *)
run_terminated ==
    /\ component = "search"
    /\ search_pc = "running"
    /\ Last(stack).pc = "terminated"
    /\ stack' = IF Len(stack) = 1 THEN <<>>
                ELSE SetLast(Pop(stack), [Last(Pop(stack)) EXCEPT !.pc = "terminated"])
    /\ search_pc' = IF Len(stack) = 1 THEN "terminated" ELSE search_pc
    /\ search_result' = IF Len(stack) = 1 THEN TerminatedSearch ELSE search_result
    /\ UNCHANGED <<component, outside_search, runs, position, tt, state_stack, moves,
                   unreported_nodes>>

SearchInit ==
    /\ search_pc = "ready"
    /\ search_result = None
    /\ runs = 0
    /\ position = <<>>
    /\ tt = <<>>
    /\ state_stack = <<>>
    /\ moves = <<{}>>
    /\ unreported_nodes = 0
    /\ stack = <<>>

----------------------------------------------------------------------------
(* MultipvSearcher (search/mod.rs) over a lower AspirationSearcher.

   A root position is the sequence of the moves played on the position the client
   gave; the legal moves of the root are 1..MaxMoves, and `searchmoves` holds the
   first of them. *)
MaxMoves == 3

RootMoves == 1..MaxMoves
Searchmoves == {[i \in 1..n |-> i] : n \in 0..MaxMoves}
VariationCounts == 1..2
RootPositions == {<<>>, <<MaxMoves + 1>>}

(* The Report of search/mod.rs, lines 132-152, with its sorted_moves. *)
MultipvReport(search_id, depth, value, sorted_moves, done) ==
    [type |-> "Report", search_id |-> search_id, depth |-> depth, value |-> value,
     sorted_moves |-> sorted_moves, done |-> done]

MultipvParams(search_id, p, depth, lower_bound, upper_bound, searchmoves, count) ==
    [type |-> "SearchParams", search_id |-> search_id, position |-> p,
     depth |-> depth, lower_bound |-> lower_bound, upper_bound |-> upper_bound,
     searchmoves |-> searchmoves, variation_count |-> count]

Position_do_move(p, m) == Append(p, m)
Position_undo_move(p) == Pop(p)

(* AspirationSearcher::start_search, as far as its reports depend on it. *)
aspiration_start_search(params) ==
    [searching |-> TRUE, terminate |-> FALSE, params |-> params]

(* A faulty write_reslut_to_tt. *)
mutant_write_reslut_to_tt(self) ==
    IF self.params.searchmoves = <<>> THEN None
    ELSE LET value == self.values[1]
         IN  [type |-> "TtEntry", position |-> self.params.position, value |-> value,
              bound |-> IF value <= self.params.lower_bound THEN "BOUND_UPPER"
                        ELSE IF value >= self.params.upper_bound THEN "BOUND_LOWER"
                        ELSE "BOUND_EXACT",
              depth |-> self.params.depth, move |-> self.params.searchmoves[1]]

(* write_reslut_to_tt, lines 564-583: what is stored, and for which position. *)
write_reslut_to_tt(self) ==
    IF self.params.searchmoves = <<>> THEN None
    ELSE LET all_moves_were_considered ==
                 Len(self.params.searchmoves) = Cardinality(RootMoves)
             value == self.values[1]
         IN  [type |-> "TtEntry",
              position |-> self.params.position,
              value |-> value,
              bound |-> IF value <= self.params.lower_bound
                           /\ ~all_moves_were_considered THEN "BOUND_NONE"
                        ELSE IF value <= self.params.lower_bound THEN "BOUND_UPPER"
                        ELSE IF value >= self.params.upper_bound
                                \/ ~all_moves_were_considered THEN "BOUND_LOWER"
                        ELSE "BOUND_EXACT",
              depth |-> self.params.depth,
              move |-> self.params.searchmoves[1]]

(* search_current_move, lines 540-562: the searcher after the call, whether a nested
   search has been started, the lower searcher and what has been stored. *)
search_current_move(self, lower, stored) ==
    LET n == Len(self.params.searchmoves)
        variation_count == min(self.params.variation_count, n)
    IN  IF /\ self.current_move_index < n
           /\ self.values[variation_count] < self.params.upper_bound
        THEN LET played == Position_do_move(
                               self.params.position,
                               self.params.searchmoves[self.current_move_index + 1])
             IN  [started |-> TRUE,
                  self |-> [self EXCEPT !.params.position = played],
                  lower |-> aspiration_start_search(
                                MultipvParams(0, played, self.params.depth - 1,
                                              -self.params.upper_bound,
                                              -max(self.values[variation_count],
                                                   self.params.lower_bound),
                                              <<>>, self.params.variation_count)),
                  stored |-> stored]
        ELSE [started |-> FALSE, self |-> self, lower |-> lower,
              stored |-> write_reslut_to_tt(self)]

(* The insertion of lines 591-596, for the element at index i (from 1). *)
RECURSIVE sift(_, _, _)
sift(values, searchmoves, i) ==
    IF i > 1 /\ values[i] > values[i - 1]
    THEN sift([values EXCEPT ![i] = values[i - 1], ![i - 1] = values[i]],
              [searchmoves EXCEPT ![i] = searchmoves[i - 1], ![i - 1] = searchmoves[i]],
              i - 1)
    ELSE [values |-> values, searchmoves |-> searchmoves]

(* A faulty change_current_move: the values are sorted, the moves stay where they
   are. *)
mutant_change_current_move(self, v) ==
    LET i == self.current_move_index + 1
        sorted == sift([self.values EXCEPT ![i] = v], self.params.searchmoves, i)
    IN  [self EXCEPT !.values = sorted.values,
                     !.current_move_index = @ + 1]

(* change_current_move, lines 585-597. *)
change_current_move(self, v) ==
    LET i == self.current_move_index + 1
        sorted == sift([self.values EXCEPT ![i] = v], self.params.searchmoves, i)
    IN  [self EXCEPT !.values = sorted.values,
                     !.params.searchmoves = sorted.searchmoves,
                     !.current_move_index = @ + 1]

(* The lower searcher, while it searches, queues progress reports. *)
aspiration_progress ==
    /\ component = "multipv"
    /\ nested.searching
    /\ Len(nested_reports) < MaxQueue
    /\ nested_reports' = Append(nested_reports,
                                    Report(0, 0, VALUE_UNKNOWN, FALSE))
    /\ UNCHANGED <<component, next_id, observer_vars, outside_multipv, multipv,
                   nested, multipv_pc, multipv_report, root, multipv_stored>>

(* The lower searcher ends its search with one done report: the depth and the value
   of the search, or depth 0 and VALUE_UNKNOWN when it has been terminated. *)
aspiration_done ==
    /\ component = "multipv"
    /\ nested.searching
    /\ \/ \E v \in Values :
             nested_reports' = Append(nested_reports,
                                          Report(0, nested.params.depth, v, TRUE))
       \/ /\ nested.terminate
          /\ nested_reports' = Append(nested_reports,
                                          Report(0, 0, VALUE_UNKNOWN, TRUE))
    /\ nested' = [nested EXCEPT !.searching = FALSE]
    /\ UNCHANGED <<component, next_id, observer_vars, outside_multipv, multipv,
                   multipv_pc, multipv_report, root, multipv_stored>>

(* MultipvSearcher::start_search, lines 613-626; the client starts a search when the
   previous one is done. *)
multipv_start_search ==
    /\ component = "multipv"
    /\ multipv_pc = "idle"
    /\ next_id <= MaxSearches
    /\ \E p \in RootPositions, w \in Windows, searchmoves \in Searchmoves,
          variation_count \in VariationCounts :
          LET params == MultipvParams(next_id, p, MaxMoves, w[1], w[2], searchmoves,
                                      variation_count)
              self == [params |-> params,
                       search_is_terminated |-> FALSE,
                       values |-> [i \in 1..Len(searchmoves) |-> VALUE_MIN],
                       current_move_index |-> 0]
              started == search_current_move(self, nested, multipv_stored)
          IN  /\ root' = p
              /\ multipv' = started.self
              /\ nested' = started.lower
              /\ multipv_stored' = started.stored
    /\ next_id' = next_id + 1
    /\ multipv_pc' = "searching"
    /\ UNCHANGED <<component, observer_vars, outside_multipv, nested_reports,
                   multipv_report>>

(* MultipvSearcher::terminate_search, lines 674-677. *)
multipv_terminate_search ==
    /\ component = "multipv"
    /\ multipv_pc = "searching"
    /\ ~multipv.search_is_terminated
    /\ multipv' = [multipv EXCEPT !.search_is_terminated = TRUE]
    /\ nested' = [nested EXCEPT !.terminate = TRUE]
    /\ UNCHANGED <<component, next_id, observer_vars, outside_multipv,
                   nested_reports, multipv_pc, multipv_report, root,
                   multipv_stored>>

(* MultipvSearcher::try_recv_report, lines 628-668, when it returns a report. *)
multipv_try_recv_report ==
    /\ component = "multipv"
    /\ multipv_pc = "searching"
    /\ IF multipv.params.searchmoves = <<>>
       THEN /\ multipv' = [multipv EXCEPT !.params.searchmoves = <<0>>]
            /\ multipv_report' = MultipvReport(multipv.params.search_id,
                                               multipv.params.depth,
                                               evaluate_final(multipv.params.position),
                                               <<>>, TRUE)
            /\ multipv_pc' = "idle"
            /\ UNCHANGED <<nested, nested_reports, multipv_stored>>
       ELSE /\ nested_reports /= <<>>
            /\ nested_reports' = Tail(nested_reports)
            /\ LET r == Head(nested_reports)
               IN  IF r.done /\ ~multipv.search_is_terminated
                   THEN LET undone == [multipv EXCEPT
                                         !.params.position = Position_undo_move(@)]
                            next == search_current_move(
                                        change_current_move(undone, -r.value),
                                        nested, multipv_stored)
                        IN  /\ multipv' = next.self
                            /\ nested' = next.lower
                            /\ multipv_stored' = next.stored
                            /\ multipv_report' =
                                  IF next.started
                                  THEN MultipvReport(multipv.params.search_id, 0,
                                                     VALUE_UNKNOWN, <<>>, FALSE)
                                  ELSE MultipvReport(multipv.params.search_id,
                                                     next.self.params.depth,
                                                     next.self.values[1],
                                                     next.self.params.searchmoves,
                                                     TRUE)
                            /\ multipv_pc' = IF next.started THEN "searching"
                                             ELSE "idle"
                   ELSE /\ multipv_report' = MultipvReport(multipv.params.search_id, 0,
                                                           VALUE_UNKNOWN, <<>>, r.done)
                        /\ multipv_pc' = IF r.done THEN "idle" ELSE "searching"
                        /\ UNCHANGED <<multipv, nested, multipv_stored>>
    /\ UNCHANGED <<component, next_id, observer_vars, outside_multipv, root>>

MultipvInit ==
    /\ multipv = [params |-> None, search_is_terminated |-> FALSE,
                  values |-> <<VALUE_MIN>>, current_move_index |-> 0]
    /\ nested = [searching |-> FALSE, terminate |-> FALSE, params |-> None]
    /\ nested_reports = <<>>
    /\ multipv_pc = "idle"
    /\ multipv_report = None
    /\ root = <<>>
    /\ multipv_stored = None

(***************************************************************************)
(* AspirationSearcher (search/mod.rs): a search within an aspiration window *)
(* that is widened, and the search run again, as long as the value falls   *)
(* outside of it.                                                          *)
(***************************************************************************)
(* What the client asks for, what the transposition table holds for the root, and
   what the root is worth. *)
AspirationDepths == {5, 7}
AspirationBounds == {<<VALUE_MIN, VALUE_MAX>>, <<-100, -50>>, <<50, 100>>, <<-51, -50>>}
TtEntry(depth, value, bound) == [type |-> "TtEntry", depth |-> depth, value |-> value, bound |-> bound]
TtEntries ==
    {None, TtEntry(4, 0, "BOUND_EXACT"), TtEntry(4, 0, "BOUND_LOWER"), TtEntry(3, 0, "BOUND_EXACT")}
PositionValues == {-20000, -75, 0, 20, 20000}

AspirationParams(depth, lower_bound, upper_bound) ==
    [type |-> "SearchParams", search_id |-> 1, depth |-> depth,
     lower_bound |-> lower_bound, upper_bound |-> upper_bound]

(* AspirationSearcher::calc_initial_aspiration_window (lines 396-425), `e` being
   what the probe of the transposition table returns. *)
calc_initial_aspiration_window(self, e) ==
    LET lower_bound == self.params.lower_bound
        upper_bound == self.params.upper_bound
        probed == e /= None /\ e.depth >= 4 /\ e.depth + 2 >= self.params.depth
        v == e.value
        a == IF probed /\ e.bound \in {"BOUND_LOWER", "BOUND_EXACT"}
             THEN max(v - 16, VALUE_MIN) ELSE VALUE_MIN
        b == IF probed /\ e.bound \in {"BOUND_UPPER", "BOUND_EXACT"}
             THEN min(v + 16, VALUE_MAX) ELSE VALUE_MAX
        high == probed /\ a >= upper_bound
        low == probed /\ b <= lower_bound
    IN  [self EXCEPT !.delta = IF low THEN lower_bound + 1 - v
                               ELSE IF high THEN v - (upper_bound - 1) ELSE 16,
                     !.expected_to_fail_high = high,
                     !.alpha = max(IF high THEN upper_bound - 1 ELSE a, lower_bound),
                     !.beta = min(IF low THEN lower_bound + 1 ELSE b, upper_bound)]

(* A faulty increase_delta: the half-width is doubled. *)
mutant_AspirationSearcher_increase_delta(self) ==
    [self EXCEPT !.delta = IF 2 * self.delta > 1500 THEN 1000000 ELSE 2 * self.delta]

(* AspirationSearcher::increase_delta (lines 445-450). *)
AspirationSearcher_increase_delta(self) ==
    [self EXCEPT !.delta = IF self.delta + (3 * self.delta) \div 8 > 1500 THEN 1000000
                           ELSE self.delta + (3 * self.delta) \div 8]

(* A faulty widen_aspiration_window: the search stays expected to fail high. *)
mutant_widen_aspiration_window(self, v) ==
    LET lower_bound == self.params.lower_bound
        upper_bound == self.params.upper_bound
        widened(s) == [ok |-> TRUE, self |-> AspirationSearcher_increase_delta(s)]
    IN  IF \/ lower_bound < self.alpha /\ lower_bound < v /\ v <= self.alpha
           \/ self.lmr_mode /\ self.expected_to_fail_high /\ v < upper_bound
        THEN widened([self EXCEPT !.alpha = max(v - self.delta, lower_bound)])
        ELSE IF self.beta < upper_bound /\ self.beta <= v /\ v < upper_bound
        THEN widened([self EXCEPT !.beta = min(v + self.delta, upper_bound)])
        ELSE [ok |-> FALSE, self |-> self]

(* AspirationSearcher::widen_aspiration_window (lines 427-443): what it returns and
   the searcher it leaves. *)
widen_aspiration_window(self, v) ==
    LET lower_bound == self.params.lower_bound
        upper_bound == self.params.upper_bound
        widened(s) ==
            [ok |-> TRUE,
             self |-> AspirationSearcher_increase_delta([s EXCEPT !.expected_to_fail_high = FALSE])]
    IN  IF \/ lower_bound < self.alpha /\ lower_bound < v /\ v <= self.alpha
           \/ self.lmr_mode /\ self.expected_to_fail_high /\ v < upper_bound
        THEN widened([self EXCEPT !.alpha = max(v - self.delta, lower_bound)])
        ELSE IF self.beta < upper_bound /\ self.beta <= v /\ v < upper_bound
        THEN widened([self EXCEPT !.beta = min(v + self.delta, upper_bound)])
        ELSE [ok |-> FALSE, self |-> self]

(* AspirationSearcher::start_aspirated_search (lines 379-394): the lower searcher
   once it has been started on the position, whose value is `value`. *)
start_aspirated_search(self, value) ==
    [searching |-> TRUE, terminate |-> FALSE, value |-> value,
     params |-> [self.params EXCEPT
                    !.search_id = 0,
                    !.depth = IF self.lmr_mode /\ self.expected_to_fail_high /\ @ > 0
                              THEN @ - 1 ELSE @,
                    !.lower_bound = self.alpha,
                    !.upper_bound = self.beta]]

(* start_search (lines 468-479). *)
AspirationSearcher_start_search ==
    /\ component = "aspiration"
    /\ ~aspirated.searching
    /\ aspirated_reports = <<>>
    /\ \E depth \in AspirationDepths, bounds \in AspirationBounds, e \in TtEntries,
          value \in PositionValues :
           \E self \in {calc_initial_aspiration_window(
                            [aspiration_searcher EXCEPT
                                !.params = AspirationParams(depth, bounds[1], bounds[2]),
                                !.search_is_terminated = FALSE], e)} :
               /\ aspiration_searcher' = self
               /\ aspirated' = start_aspirated_search(self, value)
    /\ aspiration_report' = None
    /\ UNCHANGED <<component, outside_aspiration, aspirated_reports>>

(* terminate_search (lines 509-512). *)
AspirationSearcher_terminate_search ==
    /\ component = "aspiration"
    /\ aspirated.searching
    /\ ~aspiration_searcher.search_is_terminated
    /\ aspiration_searcher' = [aspiration_searcher EXCEPT !.search_is_terminated = TRUE]
    /\ aspirated' = [aspirated EXCEPT !.terminate = TRUE]
    /\ UNCHANGED <<component, outside_aspiration, aspirated_reports, aspiration_report>>

(* try_recv_report (lines 481-503), when the lower searcher has a report. *)
AspirationSearcher_try_recv_report ==
    /\ component = "aspiration"
    /\ aspirated_reports /= <<>>
    /\ aspirated_reports' = Tail(aspirated_reports)
    /\ \E r \in {Head(aspirated_reports)} :
           IF r.done /\ ~aspiration_searcher.search_is_terminated
           THEN \E w \in {widen_aspiration_window(aspiration_searcher, r.value)} :
                    /\ aspiration_searcher' = w.self
                    /\ aspirated' = IF w.ok THEN start_aspirated_search(w.self, aspirated.value)
                                    ELSE aspirated
                    /\ aspiration_report' =
                           IF w.ok THEN Report(aspiration_searcher.params.search_id, 0,
                                               VALUE_UNKNOWN, FALSE)
                           ELSE Report(aspiration_searcher.params.search_id, r.depth,
                                       r.value, TRUE)
           ELSE /\ aspiration_report' = Report(aspiration_searcher.params.search_id, 0,
                                               VALUE_UNKNOWN, r.done)
                /\ UNCHANGED <<aspiration_searcher, aspirated>>
    /\ UNCHANGED <<component, outside_aspiration>>

(* The lower searcher, while it searches, queues progress reports. *)
aspirated_search_progress ==
    /\ component = "aspiration"
    /\ aspirated.searching
    /\ Len(aspirated_reports) < MaxQueue
    /\ aspirated_reports' = Append(aspirated_reports, Report(0, 0, VALUE_UNKNOWN, FALSE))
    /\ UNCHANGED <<component, outside_aspiration, aspiration_searcher, aspirated,
                   aspiration_report>>

(* The lower searcher ends its search with one done report: the value of the
   position if it lies within the bounds of the search, else that value or the bound
   it lies beyond; or depth 0 and VALUE_UNKNOWN when the search has been terminated. *)
aspirated_search_done ==
    /\ component = "aspiration"
    /\ aspirated.searching
    /\ \/ \E v \in {aspirated.value, max(aspirated.params.lower_bound,
                                         min(aspirated.value, aspirated.params.upper_bound))} :
             aspirated_reports' = Append(aspirated_reports,
                                         Report(0, aspirated.params.depth, v, TRUE))
       \/ /\ aspirated.terminate
          /\ aspirated_reports' = Append(aspirated_reports, Report(0, 0, VALUE_UNKNOWN, TRUE))
    /\ aspirated' = [aspirated EXCEPT !.searching = FALSE]
    /\ UNCHANGED <<component, outside_aspiration, aspiration_searcher, aspiration_report>>

(* lmr_mode (lines 374-377), which the owner calls on the searcher it has made. *)
AspirationSearcher_lmr_mode ==
    /\ component = "aspiration"
    /\ aspiration_searcher.params = None
    /\ ~aspiration_searcher.lmr_mode
    /\ aspiration_searcher' = [aspiration_searcher EXCEPT !.lmr_mode = TRUE]
    /\ UNCHANGED <<component, outside_aspiration, aspirated, aspirated_reports,
                   aspiration_report>>

(* AspirationSearcher::new (lines 453-466). *)
AspirationInit ==
    /\ aspiration_searcher =
           [params |-> None, search_is_terminated |-> FALSE, lmr_mode |-> FALSE,
            alpha |-> VALUE_MIN, beta |-> VALUE_MAX, delta |-> 0,
            expected_to_fail_high |-> FALSE]
    /\ aspirated = [searching |-> FALSE, terminate |-> FALSE, value |-> 0, params |-> None]
    /\ aspirated_reports = <<>>
    /\ aspiration_report = None

(***************************************************************************)
(* Position::qsearch (search/position/mod.rs): the quiescence search.  A   *)
(* position is what qsearch reads of it: whether the side to move is in    *)
(* check, the value of the static evaluator, and the moves generate_moves  *)
(* yields, in the order remove_best hands them out.  A move carries its    *)
(* type, destination square, captured and promoted-to piece, the value of  *)
(* calc_see, and the position do_move leads to (None when do_move rejects  *)
(* the move).                                                              *)
(***************************************************************************)
VALUE_EVAL_MAX == 29999
VALUE_EVAL_MIN == -VALUE_EVAL_MAX
SEE_EXCHANGE_MAX_PLY == 2
PIECE_VALUES == [KING |-> 10000, QUEEN |-> 975, ROOK |-> 500, BISHOP |-> 325, KNIGHT |-> 325, PAWN |-> 100, NO_PIECE |-> 0]

(* The deepest tree of positions the quiescence search is run on. *)
MaxQuiescencePly == 3

QPosition(in_check, evaluation, qmoves) == [in_check |-> in_check, evaluation |-> evaluation, moves |-> qmoves]
QMove(move_type, dest_square, captured_piece, promoted_piece, see, child) == [move_type |-> move_type, dest_square |-> dest_square, captured_piece |-> captured_piece, promoted_piece |-> promoted_piece, see |-> see, child |-> child]

(* The static evaluator stays within VALUE_EVAL_MIN..VALUE_EVAL_MAX: values outside
   of it designate an inevitable checkmate (chesstypes/value.rs). *)
StaticEvaluations == {VALUE_EVAL_MIN, 0, VALUE_EVAL_MAX}
QuietPositions == {QPosition(FALSE, e, <<>>) : e \in StaticEvaluations} \cup {QPosition(TRUE, 0, <<>>)}
(* The moves of the model that lead to the position child: a winning capture, a
   losing capture, an even exchange, a promotion, and a move do_move rejects. *)
QMoves(child) ==
    { QMove("MOVE_NORMAL", 1, "QUEEN", "NO_PIECE", 975, child),
      QMove("MOVE_NORMAL", 1, "PAWN", "NO_PIECE", -225, child),
      QMove("MOVE_NORMAL", 2, "PAWN", "NO_PIECE", 0, child),
      QMove("MOVE_PROMOTION", 3, "NO_PIECE", "QUEEN", 0, child),
      QMove("MOVE_NORMAL", 1, "ROOK", "NO_PIECE", 500, None) }
QBounds == {<<VALUE_MIN, VALUE_MAX>>, <<-10000, 10000>>, <<30000, VALUE_MAX>>, <<VALUE_MIN, -30000>>, <<99, 100>>}

RECURSIVE quiescence_ply(_)
quiescence_ply(p) == IF p.moves = <<>> \/ p.moves[1].child = None THEN 0 ELSE 1 + quiescence_ply(p.moves[1].child)

RECURSIVE qsearch(_, _, _, _, _, _)
RECURSIVE qsearch_moves(_, _, _, _, _, _, _, _)

(* The loop of qsearch over the generated moves, from the i-th move on. *)
qsearch_moves(p, i, lower_bound, upper_bound, obligatory_material_gain, recapture_squares, ply, searched_nodes) ==
    IF i > Len(p.moves) THEN [lower_bound |-> lower_bound, searched_nodes |-> searched_nodes]
    ELSE LET m == p.moves[i]
             dest_square_bb == {m.dest_square}
             material_gain == IF m.move_type = "MOVE_PROMOTION"
                              THEN PIECE_VALUES[m.captured_piece] + PIECE_VALUES[m.promoted_piece] - PIECE_VALUES["PAWN"]
                              ELSE PIECE_VALUES[m.captured_piece]
             not_tried ==
                 \/ material_gain < obligatory_material_gain
                 \/ /\ ~p.in_check
                    /\ m.move_type = "MOVE_NORMAL"
                    /\ recapture_squares \cap dest_square_bb = {}
                    /\ (m.see < 0 \/ (m.see = 0 /\ ply >= SEE_EXCHANGE_MAX_PLY))
         IN  IF not_tried \/ m.child = None
             THEN qsearch_moves(p, i + 1, lower_bound, upper_bound, obligatory_material_gain, recapture_squares, ply, searched_nodes)
             ELSE LET r == qsearch(m.child, -upper_bound, -lower_bound, VALUE_UNKNOWN, (recapture_squares \ dest_square_bb) \cup (dest_square_bb \ recapture_squares), ply + 1)
                      value == -r.value
                      nodes == searched_nodes + 1 + r.searched_nodes
                  IN  IF value >= upper_bound THEN [lower_bound |-> value, searched_nodes |-> nodes]
                      ELSE qsearch_moves(p, i + 1, max(value, lower_bound), upper_bound, obligatory_material_gain, recapture_squares \ dest_square_bb, ply, nodes)

mutant_qsearch(p, lower_bound, upper_bound, stand_pat, recapture_squares, ply) ==
    LET stand == IF p.in_check THEN lower_bound
                 ELSE IF stand_pat = VALUE_UNKNOWN THEN p.evaluation ELSE stand_pat
    IN  IF stand >= upper_bound THEN [value |-> stand, searched_nodes |-> 0]
        ELSE LET lower == max(stand, lower_bound)
                 r == qsearch_moves(p, 1, lower, upper_bound, lower - stand - 2 * PIECE_VALUES["PAWN"], recapture_squares, ply, 0)
             IN  [value |-> r.lower_bound, searched_nodes |-> r.searched_nodes]

qsearch(p, lower_bound, upper_bound, stand_pat, recapture_squares, ply) ==
    LET stand == IF p.in_check THEN lower_bound
                 ELSE IF stand_pat = VALUE_UNKNOWN THEN p.evaluation ELSE stand_pat
    IN  IF stand >= upper_bound THEN [value |-> stand, searched_nodes |-> 0]
        ELSE LET lower == max(stand, lower_bound)
                 r == qsearch_moves(p, 1, lower, upper_bound, lower - stand - 2 * PIECE_VALUES["PAWN"], recapture_squares, ply, 0)
             IN  [value |-> IF r.lower_bound < VALUE_EVAL_MIN THEN VALUE_EVAL_MIN
                            ELSE IF r.lower_bound > VALUE_EVAL_MAX THEN VALUE_EVAL_MAX
                            ELSE r.lower_bound,
                  searched_nodes |-> r.searched_nodes]

(* The search comes to a position none of whose moves is generated. *)
quiescence_position ==
    /\ component = "quiescence"
    /\ \E p \in QuietPositions : qnode' = p
    /\ qresult' = None
    /\ UNCHANGED <<component, outside_evaluation, pv_tt, pv_variation>>

(* The search comes to a position one move before the current one. *)
quiescence_parent ==
    /\ component = "quiescence"
    /\ quiescence_ply(qnode) < MaxQuiescencePly
    /\ \E in_check \in BOOLEAN, m \in QMoves(qnode) : qnode' = QPosition(in_check, 0, <<m>>)
    /\ qresult' = None
    /\ UNCHANGED <<component, outside_evaluation, pv_tt, pv_variation>>

(* SearchNode::evaluate_quiescence of Position. *)
Position_evaluate_quiescence ==
    /\ component = "quiescence"
    /\ \E w \in QBounds, static_evaluation \in {VALUE_UNKNOWN, qnode.evaluation}, repeated_or_rule50 \in BOOLEAN :
           /\ repeated_or_rule50 => static_evaluation = VALUE_UNKNOWN
           /\ \E r \in {IF repeated_or_rule50 THEN [value |-> 0, searched_nodes |-> 0] ELSE qsearch(qnode, w[1], w[2], static_evaluation, {}, 0)} :
                  qresult' = [lower_bound |-> w[1], upper_bound |-> w[2], static_evaluation |-> static_evaluation, repeated_or_rule50 |-> repeated_or_rule50, value |-> r.value, searched_nodes |-> r.searched_nodes]
    /\ UNCHANGED <<component, outside_evaluation, qnode, pv_tt, pv_variation>>

QuiescenceInit ==
    /\ qnode = QPosition(FALSE, 0, <<>>)
    /\ qresult = None

(***************************************************************************)
(* extract_pv (search/mod.rs): the primary variation read from the         *)
(* transposition table.  A position is the sequence of the moves played    *)
(* from the root; move 1 is legal in every position, move 2 passes         *)
(* try_move_digest and is rejected by do_move, and 0 is the digest of no   *)
(* move.                                                                   *)
(***************************************************************************)
EPSILON == 8

(* The longest position the transposition table of the model holds an entry for. *)
MaxPvLength == 1

PvPositions == UNION {[1..n -> {1}] : n \in 0..MaxPvLength}
PvEntries == [value : {-20000, 0, 20, 20000}, bound : {"BOUND_NONE", "BOUND_LOWER", "BOUND_UPPER", "BOUND_EXACT"}, move16 : {0, 1, 2}]
PvDepths == 0..(MaxPvLength + 1)
abs(x) == IF x < 0 THEN -x ELSE x
peek(table, p) == IF p \in DOMAIN table THEN table[p] ELSE None

RECURSIVE mutant_move_extraction(_, _, _)
(* A faulty loop 'move_extraction: the result of do_move is ignored. *)
mutant_move_extraction(table, depth, s) ==
    LET entry == peek(table, s.p)
    IN  IF entry = None \/ entry.bound = "BOUND_NONE" THEN s
        ELSE LET read == IF s.our_turn THEN entry.value ELSE -entry.value
                 read_bound == IF s.our_turn THEN entry.bound
                               ELSE IF entry.bound = "BOUND_UPPER" THEN "BOUND_LOWER"
                               ELSE IF entry.bound = "BOUND_LOWER" THEN "BOUND_UPPER"
                               ELSE entry.bound
                 leaf_value == IF read > 9999 THEN 9999 ELSE IF read < -9999 THEN 9999 ELSE read
                 bound == IF read > 9999 /\ read_bound = "BOUND_LOWER" THEN "BOUND_EXACT"
                          ELSE IF read < -9999 /\ read_bound = "BOUND_UPPER" THEN "BOUND_EXACT"
                          ELSE read_bound
                 pv_moves == IF s.prev_move # <<>> THEN Append(s.pv_moves, s.prev_move[1]) ELSE s.pv_moves
                 root_value == IF s.prev_move # <<>> THEN s.root_value ELSE leaf_value
                 s1 == [s EXCEPT !.leaf_value = leaf_value, !.bound = bound, !.pv_moves = pv_moves, !.root_value = root_value, !.read = read, !.read_bound = read_bound]
                 m == entry.move16
             IN  IF Len(pv_moves) < depth /\ abs(leaf_value - root_value) <= EPSILON /\ m \in {1, 2}
                 THEN IF bound = "BOUND_EXACT"
                      THEN mutant_move_extraction(table, depth, [s1 EXCEPT !.prev_move = <<m>>, !.our_turn = ~s.our_turn, !.p = Append(s.p, m)])
                      ELSE [s1 EXCEPT !.pv_moves = Append(pv_moves, m)]
                 ELSE s1

RECURSIVE move_extraction(_, _, _)
(* The loop 'move_extraction of extract_pv, s being its local variables: prev_move
   is <<>> or holds one move, and read is the value of the last entry read, from the
   side of the root, before it is chopped. *)
move_extraction(table, depth, s) ==
    LET entry == peek(table, s.p)
    IN  IF entry = None \/ entry.bound = "BOUND_NONE" THEN s
        ELSE LET read == IF s.our_turn THEN entry.value ELSE -entry.value
                 read_bound == IF s.our_turn THEN entry.bound
                               ELSE IF entry.bound = "BOUND_UPPER" THEN "BOUND_LOWER"
                               ELSE IF entry.bound = "BOUND_LOWER" THEN "BOUND_UPPER"
                               ELSE entry.bound
                 leaf_value == IF read > 9999 THEN 9999 ELSE IF read < -9999 THEN 9999 ELSE read
                 bound == IF read > 9999 /\ read_bound = "BOUND_LOWER" THEN "BOUND_EXACT"
                          ELSE IF read < -9999 /\ read_bound = "BOUND_UPPER" THEN "BOUND_EXACT"
                          ELSE read_bound
                 pv_moves == IF s.prev_move # <<>> THEN Append(s.pv_moves, s.prev_move[1]) ELSE s.pv_moves
                 root_value == IF s.prev_move # <<>> THEN s.root_value ELSE leaf_value
                 s1 == [s EXCEPT !.leaf_value = leaf_value, !.bound = bound, !.pv_moves = pv_moves, !.root_value = root_value, !.read = read, !.read_bound = read_bound]
                 m == entry.move16
             IN  IF Len(pv_moves) < depth /\ abs(leaf_value - root_value) <= EPSILON /\ m = 1
                 THEN IF bound = "BOUND_EXACT"
                      THEN move_extraction(table, depth, [s1 EXCEPT !.prev_move = <<m>>, !.our_turn = ~s.our_turn, !.p = Append(s.p, m)])
                      ELSE [s1 EXCEPT !.pv_moves = Append(pv_moves, m)]
                 ELSE s1

extract_pv(table, p, depth) ==
    LET s == move_extraction(table, depth, [p |-> p, our_turn |-> TRUE, prev_move |-> <<>>, leaf_value |-> -9999, root_value |-> -9999, bound |-> "BOUND_LOWER", pv_moves |-> <<>>, read |-> VALUE_UNKNOWN, read_bound |-> "BOUND_NONE"])
        x == s.leaf_value - s.root_value
    IN  [value |-> s.root_value,
         bound |-> IF x > EPSILON /\ s.bound # "BOUND_UPPER" THEN "BOUND_LOWER"
                   ELSE IF x < -EPSILON /\ s.bound # "BOUND_LOWER" THEN "BOUND_UPPER"
                   ELSE s.bound,
         moves |-> s.pv_moves,
         leaf_value |-> s.leaf_value, leaf_bound |-> s.bound, read |-> s.read, read_bound |-> s.read_bound]

(* A search stores an entry for a position. *)
Tt_store ==
    /\ component = "variation"
    /\ \E p \in PvPositions, e \in PvEntries : pv_tt' = [pv_tt EXCEPT ![p] = e]
    /\ pv_variation' = None
    /\ UNCHANGED <<component, outside_evaluation, qnode, qresult>>

(* The engine extracts the primary variation of the root. *)
pv_extract ==
    /\ component = "variation"
    /\ \E depth \in PvDepths :
           \E v \in {extract_pv(pv_tt, <<>>, depth)} :
               pv_variation' = [depth |-> depth, variation |-> v]
    /\ UNCHANGED <<component, outside_evaluation, qnode, qresult, pv_tt>>

VariationInit ==
    /\ pv_tt = [p \in PvPositions |-> None]
    /\ pv_variation = None

(***************************************************************************)
(* Board (position/board.rs): the chess board with its move generator, on  *)
(* the real 8x8 geometry.  A bitboard is the set of its squares, so that   *)
(* &, | and ! are intersection, union and complement within Squares, and   *)
(* ^ is the symmetric difference.                                          *)
(***************************************************************************)

(* basetypes.rs *)
WHITE == 0
BLACK == 1
KING == 0
QUEEN == 1
ROOK == 2
BISHOP == 3
KNIGHT == 4
PAWN == 5
NO_PIECE == 6

(* chess_move.rs, basetypes/moves.rs *)
MOVE_ENPASSANT == 0
MOVE_PROMOTION == 1
MOVE_CASTLING == 2
MOVE_NORMAL == 3

(* position/board.rs *)
NO_ENPASSANT_FILE == 8
PAWN_PUSH == 0
PAWN_DOUBLE_PUSH == 1
PAWN_WEST_CAPTURE == 2
PAWN_EAST_CAPTURE == 3

Squares == 0..63
UNIVERSAL_SET == Squares
EMPTY_SET == {}
file(s) == s % 8
rank(s) == s \div 8
xor(a, b) == (a \ b) \cup (b \ a)

(* bitsets.rs, gen_shift: the bits shifted out of the 64-bit word are lost. *)
gen_shift(x, s) == {q + s : q \in x} \cap Squares

BB_RANK == [r \in 0..7 |-> {s \in Squares : rank(s) = r}]
BB_PAWN_PROMOTION_RANKS == BB_RANK[0] \cup BB_RANK[7]

(* PAWN_MOVE_SHIFTS[color][move], indexed from 1. *)
PAWN_MOVE_SHIFTS == <<<<8, 16, 7, 9>>, <<-8, -16, -9, -7>>>>

(* PAWN_MOVE_CANDIDATES[move] of calc_pawn_dest_sets, indexed from 1: no pawn on the
   first and the last rank moves, a double push starts on the second or the seventh
   rank, a capture to the west never starts on file A, one to the east never on file H.
   PAWN_MOVE_QUIET[move] is the universal set for the pushes and empty for the
   captures. *)
PAWN_MOVE_CANDIDATES ==
    [i \in 1..4 |->
        {s \in Squares : IF i = PAWN_DOUBLE_PUSH + 1 THEN rank(s) \in {1, 6}
                          ELSE rank(s) \notin {0, 7} /\ file(s) /= <<8, 8, 0, 7>>[i]}]
PAWN_MOVE_QUIET == <<UNIVERSAL_SET, UNIVERSAL_SET, EMPTY_SET, EMPTY_SET>>

(* CASTLING_ROOK_MASK[color][side]: A1|D1, H1|F1, A8|D8, H8|F8. *)
CASTLING_ROOK_MASK == <<<<{0, 3}, {7, 5}>>, <<{56, 59}, {63, 61}>>>>

(* BoardGeometry (board.rs): the tables of the attack sets and of the lines of the
   board.  piece_grid_deltas are the steps of a piece as (file, rank) pairs: those of
   the king and the queen have the square norms 1 and 2, those of the rook 1, of the
   bishop 2, of the knight 5.  piece_longrange: the queen, the rook and the bishop
   repeat their step. *)
piece_grid_deltas ==
    [piece \in KING..KNIGHT |->
        {d \in (-2..2) \X (-2..2) :
             d[1] * d[1] + d[2] * d[2] \in <<{1, 2}, {1, 2}, {1}, {2}, {5}>>[piece + 1]}]
piece_longrange == [piece \in KING..KNIGHT |-> piece \in QUEEN..BISHOP]

(* The squares reached from `s` by one to `n` steps `d` that stay on the board. *)
reach(s, d, n) ==
    {s + k * (d[1] + 8 * d[2])
         : k \in {j \in 1..n : file(s) + j * d[1] \in 0..7 /\ rank(s) + j * d[2] \in 0..7}}

(* fill_attack_and_blockers_and_beyond_arrays: the attack sets on an empty board, and
   the same without the last square of every ray of a long-range piece. *)
attacks ==
    [piece \in KING..KNIGHT |-> [s \in Squares |->
        UNION {reach(s, d, IF piece_longrange[piece] THEN 7 ELSE 1)
                   : d \in piece_grid_deltas[piece]}]]
blockers_and_beyond ==
    [piece \in KING..KNIGHT |-> [s \in Squares |->
        IF piece_longrange[piece]
        THEN UNION {{q \in reach(s, d, 7) : reach(q, d, 1) /= {}} : d \in piece_grid_deltas[piece]}
        ELSE {}]]

(* fill_squares_between_including_and_squares_behind_blocker_arrays. *)
squares_between_including ==
    [a \in Squares |-> [b \in Squares |->
        UNION {IF b \in reach(a, d, 7) THEN ({a} \cup reach(a, d, 7)) \ reach(b, d, 7) ELSE {}
                   : d \in piece_grid_deltas[QUEEN]}]]
squares_behind_blocker ==
    [a \in Squares |-> [b \in Squares |->
        UNION {IF b \in reach(a, d, 7) THEN reach(b, d, 7) ELSE {}
                   : d \in piece_grid_deltas[QUEEN]}]]

(* fill_squares_at_line_array. *)
squares_at_line ==
    [a \in Squares |-> [b \in Squares |->
        squares_between_including[a][b] \cup squares_behind_blocker[a][b]
            \cup squares_behind_blocker[b][a]]]

(* piece_attacks_from (board.rs lines 756-769). *)
piece_attacks_from(occupied, piece, s) ==
    attacks[piece][s]
        \ UNION {squares_behind_blocker[s][b] : b \in occupied \cap blockers_and_beyond[piece][s]}

(* CastlingRights: four bits, bit 2 * color + side. *)
castling_bit(v, i) == (v \div (2 ^ i)) % 2
can_castle(v, color, side) == castling_bit(v, 2 * color + side) = 1
get_for(v, color) == IF color = WHITE THEN v % 4 ELSE v \div 4
set_for(v, color, rights) == IF color = WHITE THEN 4 * (v \div 4) + rights ELSE (v % 4) + 4 * rights

(* CastlingRights::update: a move from or to a corner or a king's square ends the
   rights that need the piece standing there. *)
castling_relation(s) ==
    CASE s = 0 -> {0} [] s = 4 -> {0, 1} [] s = 7 -> {1}
      [] s = 56 -> {2} [] s = 60 -> {2, 3} [] s = 63 -> {3} [] OTHER -> {}

castling_update(v, orig_square, dest_square) ==
    LET kept(lost, i) == IF i \in lost THEN 0 ELSE castling_bit(v, i) * (2 ^ i)
        rights(lost) == kept(lost, 0) + kept(lost, 1) + kept(lost, 2) + kept(lost, 3)
    IN  rights(castling_relation(orig_square) \cup castling_relation(dest_square))

(* CastlingRights::obstacles: the squares between king and rook, or every square when
   the right is lost. *)
castling_obstacles(v, color, side) ==
    IF ~can_castle(v, color, side) THEN UNIVERSAL_SET
    ELSE LET r == 56 * color IN IF side = 0 THEN {r + 1, r + 2, r + 3} ELSE {r + 5, r + 6}

(* ZobristArrays (lines 1376-1454): random 64-bit keys.  A hash is the set of the
   keys xor-ed into it, taking the keys as linearly independent; en_passant[8..15]
   are zero. *)
zobrist_pieces(color, piece, s) == {<<"pieces", color, piece, s>>}
zobrist_castling(v) == {<<"castling", v, 0, 0>>}
zobrist_en_passant(f) == IF f < 8 THEN {<<"en_passant", f, 0, 0>>} ELSE {}
zobrist_to_move == {<<"to_move", 0, 0, 0>>}
(* A faulty key of the rook's move in castling: the rook leaves its corner and
   arrives nowhere. *)
mutant_zobrist_castling_rook_move(color, side) ==
    zobrist_pieces(color, ROOK, 56 * color + 7 * side)
zobrist_castling_rook_move(color, side) ==
    UNION {zobrist_pieces(color, ROOK, s) : s \in CASTLING_ROOK_MASK[color + 1][side + 1]}

(* Move::new (chess_move.rs): the fields are disjoint bit ranges of the move word.
   `castling` is the field of basetypes/moves.rs, which keeps all four bits. *)
Move_new(us, move_type, piece, orig_square, dest_square, captured_piece, en_passant_file, castling, promoted_piece_code) ==
    [move_type |-> move_type, piece |-> piece, orig_square |-> orig_square,
     dest_square |-> dest_square, captured_piece |-> captured_piece,
     en_passant_file |-> en_passant_file,
     castling_data |-> get_for(castling, 1 - us),
     aux_data |-> IF move_type = MOVE_PROMOTION THEN promoted_piece_code
                  ELSE get_for(castling, us),
     castling |-> castling]

piece_from_aux_data(pp_code) ==
    CASE pp_code = 0 -> QUEEN [] pp_code = 1 -> ROOK [] pp_code = 2 -> BISHOP [] OTHER -> KNIGHT

is_null(m) == m.orig_square = m.dest_square /\ m.move_type = MOVE_NORMAL
is_pawn_advance_or_capure(m) == m.piece = PAWN \/ m.captured_piece /= NO_PIECE

(* get_piece_type_at (lines 1359-1372): the piece type of the highest index. *)
get_piece_type_at(piece_type, occupied, s) ==
    IF s \notin occupied THEN NO_PIECE
    ELSE LET found == {i \in KING..PAWN : s \in piece_type[i]}
         IN  CHOOSE i \in found : \A j \in found : j <= i

(* Board::king_square (lines 1204-1211): computed unless saved. *)
king_square(b) ==
    IF b._king_square > 63 THEN CHOOSE s \in b.piece_type[KING] \cap b.color[b.to_move] : TRUE
    ELSE b._king_square

(* The pawns of `occupied_by` that attack `square` when they capture with `shifts`:
   lines 170-173 and 1240-1245. *)
pawn_attacks_to(b, occupied_by, shifts, square) ==
    UNION {gen_shift({square}, -shifts[i]) \cap occupied_by \cap b.piece_type[PAWN]
               \cap PAWN_MOVE_CANDIDATES[i]
               : i \in {PAWN_EAST_CAPTURE + 1, PAWN_WEST_CAPTURE + 1}}

(* The pieces and pawns of `occupied_by` that attack `square` on a board occupied as
   `occupied` says: the rooks and queens on its straight lines, the bishops and queens
   on its diagonals, the knights, the king, and the pawns. *)
attackers(b, occupied, occupied_by, shifts, square) ==
    UNION {piece_attacks_from(occupied, piece, square) \cap occupied_by
               \cap (b.piece_type[piece]
                     \cup IF piece \in {ROOK, BISHOP} THEN b.piece_type[QUEEN] ELSE {})
               : piece \in {ROOK, BISHOP, KNIGHT, KING}}
    \cup pawn_attacks_to(b, occupied_by, shifts, square)

(* Board::attacks_to (lines 149-176). *)
attacks_to(b, us, square) ==
    attackers(b, b._occupied, b.color[us], PAWN_MOVE_SHIFTS[us + 1], square)

(* Board::checkers (lines 129-134): computed unless saved. *)
checkers(b) ==
    IF b._checkers = UNIVERSAL_SET THEN attacks_to(b, 1 - b.to_move, king_square(b))
    ELSE b._checkers

(* Board::king_would_be_in_check (lines 1218-1249): the king is taken off the board. *)
king_would_be_in_check(b, square) ==
    LET them == 1 - b.to_move
    IN  attackers(b, b._occupied \ {king_square(b)}, b.color[them],
                  PAWN_MOVE_SHIFTS[them + 1], square) /= EMPTY_SET

(* A faulty find_pinned: it finds no pinned piece. *)
mutant_find_pinned(b) == EMPTY_SET

(* Board::find_pinned (lines 1131-1178). *)
find_pinned(b) ==
    LET occupied_by_them == b.color[1 - b.to_move]
        occupied_by_us == b.color[b.to_move]
        sliders(piece) == occupied_by_them \cap (b.piece_type[QUEEN] \cup b.piece_type[piece])
        pinned_by(pinners) ==
            UNION {IF Cardinality(blockers_group) <= 1 THEN blockers_group ELSE {}
                       : blockers_group \in
                             {squares_between_including[king_square(b)][pinner_square]
                                  \cap ((occupied_by_us \ {king_square(b)})
                                        \cup (occupied_by_them \ pinners))
                                  : pinner_square \in pinners}}
    IN  pinned_by(UNION {sliders(piece)
                             \cap piece_attacks_from(sliders(piece), piece, king_square(b))
                             : piece \in {BISHOP, ROOK}})
        \cap occupied_by_us

(* Board::pinned (lines 139-144): computed unless saved. *)
pinned(b) == IF b._pinned = UNIVERSAL_SET THEN find_pinned(b) ELSE b._pinned

(* The board once king_square(), checkers() and pinned() have saved their results. *)
saved(b, with_checkers, with_pinned) ==
    [b EXCEPT !._king_square = king_square(b),
              !._checkers = IF with_checkers THEN checkers(b) ELSE @,
              !._pinned = IF with_pinned THEN pinned(b) ELSE @]

(* Board::en_passant_bb (lines 1184-1196). *)
en_passant_bb(b) ==
    IF b.en_passant_file >= NO_ENPASSANT_FILE THEN EMPTY_SET
    ELSE IF b.to_move = WHITE THEN {b.en_passant_file + 40} ELSE {b.en_passant_file + 16}

(* Board::en_passant_special_check_ok (lines 1257-1276). *)
en_passant_special_check_ok(b, orig_square, dest_square) ==
    IF king_square(b) \notin BB_RANK[4 - b.to_move] THEN TRUE
    ELSE LET the_two_pawns ==
                 {orig_square}
                 \cup gen_shift({0}, dest_square - PAWN_MOVE_SHIFTS[b.to_move + 1][PAWN_PUSH + 1])
             occupied == b._occupied \ the_two_pawns
             occupied_by_them == b.color[1 - b.to_move] \ the_two_pawns
         IN  piece_attacks_from(occupied, ROOK, king_square(b)) \cap occupied_by_them
                 \cap (b.piece_type[ROOK] \cup b.piece_type[QUEEN]) = EMPTY_SET

(* Board::calc_pawn_dest_sets (lines 934-953): the four destination sets. *)
calc_pawn_dest_sets(b, pawns, ep_bb) ==
    LET shifts == PAWN_MOVE_SHIFTS[b.to_move + 1]
        double_push_masked(dest_sets) ==
            [dest_sets EXCEPT ![PAWN_DOUBLE_PUSH + 1] =
                 @ \cap gen_shift(dest_sets[PAWN_PUSH + 1], shifts[PAWN_PUSH + 1])]
    IN  double_push_masked(
            [i \in 1..4 |->
                gen_shift(pawns \cap PAWN_MOVE_CANDIDATES[i], shifts[i])
                \cap xor(b.color[1 - b.to_move] \cup ep_bb, PAWN_MOVE_QUIET[i])
                \cap (Squares \ b.color[b.to_move])])
(* Board::push_piece_moves_to_sink (lines 962-989): the moves pushed. *)
push_piece_moves_to_sink(b, piece, from_square, legal_dests) ==
    {Move_new(b.to_move, MOVE_NORMAL, piece, from_square, dest_square,
              get_piece_type_at(b.piece_type, b._occupied, dest_square),
              b.en_passant_file, b.castling, 0)
         : dest_square \in piece_attacks_from(b._occupied, piece, from_square) \cap legal_dests}

(* Board::push_pawn_moves_to_sink (lines 999-1086): the moves pushed. *)
push_pawn_moves_to_sink(b, pawns, ep_bb, legal_dests, only_queen_promotions) ==
    LET dest_sets == calc_pawn_dest_sets(b, pawns, ep_bb)
        shifts == PAWN_MOVE_SHIFTS[b.to_move + 1]
        captured_piece(dest_square) == get_piece_type_at(b.piece_type, b._occupied, dest_square)
        pawn_move(i, dest_square, move_type, captured, p) ==
            Move_new(b.to_move, move_type, PAWN, dest_square - shifts[i], dest_square,
                     captured, b.en_passant_file, b.castling, p)
    IN  UNION {UNION {IF {dest_square} = ep_bb
                      THEN IF en_passant_special_check_ok(b, dest_square - shifts[i], dest_square)
                           THEN {pawn_move(i, dest_square, MOVE_ENPASSANT, PAWN, 0)}
                           ELSE {}
                      ELSE IF dest_square \in BB_PAWN_PROMOTION_RANKS
                      THEN {pawn_move(i, dest_square, MOVE_PROMOTION,
                                      captured_piece(dest_square), p)
                                : p \in IF only_queen_promotions THEN {0} ELSE 0..3}
                      ELSE {pawn_move(i, dest_square, MOVE_NORMAL,
                                      captured_piece(dest_square), 0)}
                          : dest_square \in dest_sets[i] \cap legal_dests}
                   : i \in 1..4}

(* Board::push_castling_moves_to_sink (lines 1093-1125): the moves pushed. *)
push_castling_moves_to_sink(b) ==
    IF checkers(b) /= EMPTY_SET THEN {}
    ELSE {Move_new(b.to_move, MOVE_CASTLING, KING, king_square(b),
                   <<<<2, 58>>, <<6, 62>>>>[side + 1][b.to_move + 1],
                   NO_PIECE, b.en_passant_file, b.castling, 0)
              : side \in {s \in 0..1 :
                              castling_obstacles(b.castling, b.to_move, s) \cap b._occupied = {}}}

(* Board::generate_moves (lines 275-369), once king_square(), checkers(), pinned() and
   en_passant_bb() have returned `king`, `checkers_bb`, `pinned_bb` and `ep_bb`: the
   moves pushed on the move stack.  The free pawns are pushed together, every pinned
   pawn by itself within its pin line. *)
push_moves_to_sink(b, all, king, checkers_bb, pinned_bb, ep_bb) ==
    LET occupied_by_us == b.color[b.to_move]
        occupied_by_them == xor(b._occupied, occupied_by_us)
        generate_all_moves == all \/ checkers_bb /= EMPTY_SET
        legal_dests ==
            (Squares \ occupied_by_us)
            \cap (IF checkers_bb = EMPTY_SET THEN UNIVERSAL_SET
                  ELSE IF Cardinality(checkers_bb) = 1
                  THEN checkers_bb
                       \cup UNION {squares_between_including[king][x] : x \in checkers_bb}
                  ELSE EMPTY_SET)
        piece_dests == IF generate_all_moves THEN legal_dests ELSE occupied_by_them
        pawn_dests ==
            (IF generate_all_moves THEN UNIVERSAL_SET
             ELSE occupied_by_them \cup ep_bb \cup BB_PAWN_PROMOTION_RANKS)
            \cap legal_dests
        pawn_legal_dests ==
            (IF checkers_bb \cap b.piece_type[PAWN] = EMPTY_SET THEN EMPTY_SET ELSE ep_bb)
            \cup pawn_dests
        all_pawns == b.piece_type[PAWN] \cap occupied_by_us
        pinned_pawns == all_pawns \cap pinned_bb
        free_pawns == xor(all_pawns, pinned_pawns)
    IN  (IF legal_dests = EMPTY_SET THEN {}
         ELSE UNION {UNION {push_piece_moves_to_sink(
                                b, piece, from_square,
                                IF from_square \in pinned_bb
                                THEN piece_dests \cap squares_at_line[king][from_square]
                                ELSE piece_dests)
                                : from_square \in b.piece_type[piece] \cap occupied_by_us}
                         : piece \in QUEEN..KNIGHT}
              \cup UNION {push_pawn_moves_to_sink(b, group[1], ep_bb,
                                                  group[2] \cap pawn_legal_dests,
                                                  ~generate_all_moves)
                              : group \in {<<free_pawns, UNIVERSAL_SET>>}
                                           \cup {<<{s}, squares_at_line[king][s]>>
                                                     : s \in pinned_pawns}})
        \cup (IF generate_all_moves THEN push_castling_moves_to_sink(b) ELSE {})
        \cup push_piece_moves_to_sink(
                 b, KING, king,
                 IF generate_all_moves THEN Squares \ occupied_by_us ELSE occupied_by_them)

(* Board::generate_moves (lines 230-369). *)
generate_moves(b, all) ==
    push_moves_to_sink(b, all, king_square(b), checkers(b), pinned(b), en_passant_bb(b))

(* Board::null_move (lines 380-392). *)
null_move(b) ==
    Move_new(b.to_move, MOVE_NORMAL, KING, king_square(b), king_square(b), NO_PIECE,
             b.en_passant_file, b.castling, 0)

(* Move::digest (basetypes/moves.rs): the lowest 16 bits of a move, which hold the
   move type, the two squares and the auxiliary data; the auxiliary data is the
   promoted piece code of a pawn promotion and zero for every other move. *)
Move_digest(m) ==
    m.move_type * 16384 + m.orig_square * 256 + m.dest_square * 4
        + (IF m.move_type = MOVE_PROMOTION THEN m.aux_data ELSE 0)

(* Board::try_move_digest (position/move_generation.rs lines 371-515): the move, or
   None. *)
try_move_digest(b, move_digest) ==
    IF move_digest = 0 THEN None
    ELSE LET move_type == (move_digest \div 16384) % 4
             orig_square == (move_digest \div 256) % 64
             dest_square == (move_digest \div 4) % 64
             promoted_piece_code == move_digest % 4
             king == king_square(b)
             checkers_bb == checkers(b)
             side == IF dest_square < orig_square THEN 0 ELSE 1
             occupied_by_us == b.color[b.to_move]
             orig_square_bb == occupied_by_us \cap {orig_square}
             piece == CHOOSE i \in KING..PAWN : orig_square_bb \cap b.piece_type[i] /= {}
             ep_bb == en_passant_bb(b)
             checked_dests ==
                 (Squares \ occupied_by_us)
                 \cap (IF piece = KING \/ checkers_bb = EMPTY_SET THEN UNIVERSAL_SET
                       ELSE checkers_bb
                            \cup UNION {squares_between_including[king][x] : x \in checkers_bb})
                 \cap (IF piece /= KING /\ orig_square_bb \cap find_pinned(b) /= {}
                       THEN squares_at_line[king][orig_square] ELSE UNIVERSAL_SET)
             dest_sets == calc_pawn_dest_sets(b, orig_square_bb, ep_bb)
             pawn_dests ==
                 (checked_dests
                  \cup (IF checkers_bb \cap b.piece_type[PAWN] /= {} THEN ep_bb ELSE {}))
                 \cap (dest_sets[PAWN_PUSH + 1] \cup dest_sets[PAWN_DOUBLE_PUSH + 1]
                       \cup dest_sets[PAWN_WEST_CAPTURE + 1] \cup dest_sets[PAWN_EAST_CAPTURE + 1])
             found(captured_piece) ==
                 Move_new(b.to_move, move_type, piece, orig_square, dest_square,
                          captured_piece, b.en_passant_file, b.castling, promoted_piece_code)
             at_dest == get_piece_type_at(b.piece_type, b._occupied, dest_square)
         IN  IF move_type = MOVE_CASTLING
             THEN IF \/ checkers_bb /= EMPTY_SET
                     \/ castling_obstacles(b.castling, b.to_move, side) \cap b._occupied /= {}
                     \/ orig_square /= king
                     \/ dest_square /= <<<<2, 58>>, <<6, 62>>>>[side + 1][b.to_move + 1]
                     \/ promoted_piece_code /= 0
                  THEN None
                  ELSE Move_new(b.to_move, MOVE_CASTLING, KING, orig_square, dest_square,
                                NO_PIECE, b.en_passant_file, b.castling, 0)
             ELSE IF orig_square_bb = {} THEN None
             ELSE IF piece /= KING /\ Cardinality(checkers_bb) > 1 THEN None
             ELSE IF piece = PAWN
             THEN IF dest_square \notin pawn_dests THEN None
                  ELSE IF {dest_square} = ep_bb
                  THEN IF \/ move_type /= MOVE_ENPASSANT
                          \/ ~en_passant_special_check_ok(b, orig_square, dest_square)
                          \/ promoted_piece_code /= 0
                       THEN None ELSE found(PAWN)
                  ELSE IF dest_square \in BB_PAWN_PROMOTION_RANKS
                  THEN IF move_type /= MOVE_PROMOTION THEN None ELSE found(at_dest)
                  ELSE IF move_type /= MOVE_NORMAL \/ promoted_piece_code /= 0 THEN None
                  ELSE found(at_dest)
             ELSE IF \/ move_type /= MOVE_NORMAL
                     \/ dest_square \notin checked_dests
                                           \cap piece_attacks_from(b._occupied, piece, orig_square)
                     \/ promoted_piece_code /= 0
                  THEN None
                  ELSE found(at_dest)

(* Board::calc_hash (lines 1281-1300). *)
calc_hash(b) ==
    LET key(color, piece) ==
            UNION {zobrist_pieces(color, piece, s) : s \in b.color[color] \cap b.piece_type[piece]}
    IN  UNION {key(color, piece) : color \in WHITE..BLACK, piece \in KING..PAWN}
        \cup zobrist_castling(b.castling)
        \cup zobrist_en_passant(b.en_passant_file)
        \cup (IF b.to_move = BLACK THEN zobrist_to_move ELSE {})

(* Board::is_legal (lines 864-928), up to its assertions on the saved values. *)
is_legal(b) ==
    LET us == b.to_move
        them == 1 - us
        pieces_overlap == \E i, j \in KING..PAWN : i /= j /\ b.piece_type[i] \cap b.piece_type[j] /= {}
        occupied == UNION {b.piece_type[i] : i \in KING..PAWN}
        o_us == b.color[us]
        o_them == b.color[them]
        our_king_bb == b.piece_type[KING] \cap o_us
        their_king_bb == b.piece_type[KING] \cap o_them
        pawns == b.piece_type[PAWN]
        stands(piece, color, s) == s \in b.piece_type[piece] \cap b.color[color]
        castling_ok(color, side) ==
            ~can_castle(b.castling, color, side)
            \/ (stands(ROOK, color, 56 * color + 7 * side) /\ stands(KING, color, 56 * color + 4))
        dest_square_bb == gen_shift(en_passant_bb(b), PAWN_MOVE_SHIFTS[them + 1][PAWN_PUSH + 1])
        orig_square_bb == gen_shift(en_passant_bb(b), -PAWN_MOVE_SHIFTS[them + 1][PAWN_PUSH + 1])
        our_king_square == CHOOSE s \in our_king_bb : TRUE
    IN  /\ ~pieces_overlap
        /\ occupied = o_us \cup o_them
        /\ o_us \cap o_them = {}
        /\ Cardinality(our_king_bb) = 1
        /\ Cardinality(their_king_bb) = 1
        /\ Cardinality(pawns \cap o_us) <= 8
        /\ Cardinality(pawns \cap o_them) <= 8
        /\ Cardinality(o_us) <= 16
        /\ Cardinality(o_them) <= 16
        /\ attacks_to(b, us, CHOOSE s \in their_king_bb : TRUE) = {}
        /\ pawns \cap BB_PAWN_PROMOTION_RANKS = {}
        /\ \A color \in WHITE..BLACK, side \in 0..1 : castling_ok(color, side)
        /\ \/ en_passant_bb(b) = EMPTY_SET
           \/ /\ dest_square_bb \cap pawns \cap o_them /= {}
              /\ en_passant_bb(b) \ occupied /= {}
              /\ orig_square_bb \ occupied /= {}
              /\ \E en_passant_checkers \in {attacks_to(b, them, our_king_square)} :
                     \/ en_passant_checkers = EMPTY_SET
                     \/ en_passant_checkers = dest_square_bb
                     \/ /\ Cardinality(en_passant_checkers) = 1
                        /\ squares_between_including[our_king_square][
                               CHOOSE s \in en_passant_checkers : TRUE]
                           \cap orig_square_bb /= {}

(* Board::create (lines 47-90): the board, or None for Err(IllegalBoard); the
   optional en-passant square is a set of at most one square. *)
Board_create(placement, to_move, castling, en_passant_square) ==
    LET en_passant_rank == IF to_move = WHITE THEN 5 ELSE 2
        b == [piece_type |-> placement.piece_type, color |-> placement.color,
              to_move |-> to_move, castling |-> castling,
              en_passant_file |-> IF en_passant_square = {} THEN NO_ENPASSANT_FILE
                                  ELSE file(CHOOSE x \in en_passant_square : TRUE),
              _occupied |-> placement.color[WHITE] \cup placement.color[BLACK],
              _hash |-> {}, _checkers |-> UNIVERSAL_SET, _pinned |-> UNIVERSAL_SET,
              _king_square |-> 64]
        hashed == [b EXCEPT !._hash = calc_hash(b)]
    IN  IF \E x \in en_passant_square : rank(x) /= en_passant_rank THEN None
        ELSE IF is_legal(hashed) THEN hashed ELSE None

(* What do_move does to the pieces, the castling rights, the en-passant file and the
   side to move of an accepted move, with the hash delta `h` of these changes:
   position/board.rs lines 453-543 past the test of the passing square, the same
   statements as position/move_generation.rs lines 582-650. *)
play(b, m) ==
    LET us == b.to_move
        them == 1 - us
        side == IF m.dest_square > m.orig_square THEN 1 ELSE 0
        mask == IF m.move_type = MOVE_CASTLING THEN CASTLING_ROOK_MASK[us + 1][side + 1] ELSE {}
        h1 == IF m.move_type = MOVE_CASTLING THEN zobrist_castling_rook_move(us, side) ELSE {}
        \* move the rook if the move is castling
        pt1 == [b.piece_type EXCEPT ![ROOK] = xor(@, mask)]
        c1 == [b.color EXCEPT ![us] = xor(@, mask)]
        \* empty the origin square
        pt2 == [pt1 EXCEPT ![m.piece] = @ \ {m.orig_square}]
        c2 == [c1 EXCEPT ![us] = @ \ {m.orig_square}]
        h2 == xor(h1, zobrist_pieces(us, m.piece, m.orig_square))
        \* remove the captured piece (if any)
        captured_square ==
            IF m.move_type = MOVE_ENPASSANT
            THEN m.dest_square + PAWN_MOVE_SHIFTS[them + 1][PAWN_PUSH + 1] ELSE m.dest_square
        captures == m.captured_piece < NO_PIECE
        pt3 == IF captures THEN [pt2 EXCEPT ![m.captured_piece] = @ \ {captured_square}] ELSE pt2
        c3 == IF captures THEN [c2 EXCEPT ![them] = @ \ {captured_square}] ELSE c2
        h3 == IF captures THEN xor(h2, zobrist_pieces(them, m.captured_piece, captured_square))
              ELSE h2
        \* occupy the destination square
        dest_piece == IF m.move_type = MOVE_PROMOTION THEN piece_from_aux_data(m.aux_data)
                      ELSE m.piece
        pt4 == [pt3 EXCEPT ![dest_piece] = @ \cup {m.dest_square}]
        c4 == [c3 EXCEPT ![us] = @ \cup {m.dest_square}]
        h4 == xor(h3, zobrist_pieces(us, dest_piece, m.dest_square))
        \* update castling rights (null moves do not affect castling)
        castling == IF m.orig_square /= m.dest_square
                    THEN castling_update(b.castling, m.orig_square, m.dest_square) ELSE b.castling
        h5 == IF m.orig_square /= m.dest_square
              THEN xor(xor(h4, zobrist_castling(b.castling)), zobrist_castling(castling)) ELSE h4
        \* update the en-passant file
        en_passant_file ==
            IF m.piece = PAWN /\ m.dest_square - m.orig_square \in {16, -16}
            THEN file(m.dest_square) ELSE NO_ENPASSANT_FILE
        h6 == xor(xor(h5, zobrist_en_passant(b.en_passant_file)),
                  zobrist_en_passant(en_passant_file))
    IN  [piece_type |-> pt4, color |-> c4, castling |-> castling,
         en_passant_file |-> en_passant_file, to_move |-> them,
         h |-> xor(h6, zobrist_to_move)]

(* A faulty test: a king's step to an attacked square is not seen. *)
mutant_leaves_king_in_check(b, m) ==
    \/ m.piece = KING /\ m.orig_square = m.dest_square /\ checkers(b) /= EMPTY_SET
    \/ m.move_type = MOVE_CASTLING
       /\ king_would_be_in_check(b, (m.orig_square + m.dest_square) \div 2)

(* The three tests that make do_move reject a move: position/board.rs lines 441-457,
   position/move_generation.rs lines 564-580. *)
leaves_king_in_check(b, m) ==
    \/ m.piece = KING /\ m.orig_square /= m.dest_square /\ king_would_be_in_check(b, m.dest_square)
    \/ m.piece = KING /\ m.orig_square = m.dest_square /\ checkers(b) /= EMPTY_SET
    \/ m.move_type = MOVE_CASTLING
       /\ king_would_be_in_check(b, (m.orig_square + m.dest_square) \div 2)

(* What the tests of do_move save in the board: king_would_be_in_check saves the
   king's square, checkers() the checkers. *)
tested(b, m) ==
    IF m.piece /= KING /\ m.move_type /= MOVE_CASTLING THEN b
    ELSE saved(b, m.piece = KING /\ m.orig_square = m.dest_square, FALSE)

(* A faulty do_move: the null move is played when the king is in check as well. *)
mutant_Board_do_move(b, m) ==
    LET board_after(p) ==
            [piece_type |-> p.piece_type, color |-> p.color, to_move |-> p.to_move,
             castling |-> p.castling, en_passant_file |-> p.en_passant_file,
             _occupied |-> p.color[WHITE] \cup p.color[BLACK], _hash |-> xor(b._hash, p.h),
             _checkers |-> UNIVERSAL_SET, _pinned |-> UNIVERSAL_SET, _king_square |-> 64]
    IN  IF leaves_king_in_check(b, m) /\ ~is_null(m) THEN [ok |-> FALSE, board |-> tested(b, m)]
        ELSE [ok |-> TRUE, board |-> board_after(play(b, m))]

(* Board::do_move (position/board.rs lines 413-556): whether the move was played, and
   the board it leaves. *)
Board_do_move(b, m) ==
    LET board_after(p) ==
            [piece_type |-> p.piece_type, color |-> p.color, to_move |-> p.to_move,
             castling |-> p.castling, en_passant_file |-> p.en_passant_file,
             _occupied |-> p.color[WHITE] \cup p.color[BLACK], _hash |-> xor(b._hash, p.h),
             _checkers |-> UNIVERSAL_SET, _pinned |-> UNIVERSAL_SET, _king_square |-> 64]
    IN  IF leaves_king_in_check(b, m) THEN [ok |-> FALSE, board |-> tested(b, m)]
        ELSE [ok |-> TRUE, board |-> board_after(play(b, m))]

(* What undo_move does to the pieces, with the hash delta `h` of these changes:
   position/board.rs lines 609-666, the same statements as
   position/move_generation.rs lines 691-733. *)
unplay(b, m) ==
    LET them == b.to_move
        us == 1 - them
        \* empty the destination square
        dest_piece == IF m.move_type = MOVE_PROMOTION THEN piece_from_aux_data(m.aux_data)
                      ELSE m.piece
        pt1 == [b.piece_type EXCEPT ![dest_piece] = @ \ {m.dest_square}]
        c1 == [b.color EXCEPT ![us] = @ \ {m.dest_square}]
        h1 == zobrist_pieces(us, dest_piece, m.dest_square)
        \* put back the captured piece (if any)
        captured_square ==
            IF m.move_type = MOVE_ENPASSANT
            THEN m.dest_square + PAWN_MOVE_SHIFTS[them + 1][PAWN_PUSH + 1] ELSE m.dest_square
        captures == m.captured_piece < NO_PIECE
        pt2 == IF captures THEN [pt1 EXCEPT ![m.captured_piece] = @ \cup {captured_square}]
               ELSE pt1
        c2 == IF captures THEN [c1 EXCEPT ![them] = @ \cup {captured_square}] ELSE c1
        h2 == IF captures THEN xor(h1, zobrist_pieces(them, m.captured_piece, captured_square))
              ELSE h1
        \* restore the piece on the origin square
        pt3 == [pt2 EXCEPT ![m.piece] = @ \cup {m.orig_square}]
        c3 == [c2 EXCEPT ![us] = @ \cup {m.orig_square}]
        h3 == xor(h2, zobrist_pieces(us, m.piece, m.orig_square))
        \* move the rook back if the move is castling
        side == IF m.dest_square > m.orig_square THEN 1 ELSE 0
        mask == IF m.move_type = MOVE_CASTLING THEN CASTLING_ROOK_MASK[us + 1][side + 1] ELSE {}
    IN  [piece_type |-> [pt3 EXCEPT ![ROOK] = xor(@, mask)],
         color |-> [c3 EXCEPT ![us] = xor(@, mask)],
         h |-> IF m.move_type = MOVE_CASTLING
               THEN xor(h3, zobrist_castling_rook_move(us, side)) ELSE h3]

(* The board undo_move leaves when it has restored the castling rights `castling` and
   the pieces `u`: position/board.rs lines 563-678. *)
board_before(b, m, castling, u) ==
    [piece_type |-> u.piece_type, color |-> u.color, to_move |-> 1 - b.to_move,
     castling |-> castling, en_passant_file |-> m.en_passant_file,
     _occupied |-> u.color[WHITE] \cup u.color[BLACK],
     _hash |-> xor(b._hash,
                   xor(xor(xor(xor(xor(zobrist_to_move, zobrist_en_passant(b.en_passant_file)),
                                   zobrist_en_passant(m.en_passant_file)),
                               zobrist_castling(b.castling)),
                           zobrist_castling(castling)),
                       u.h)),
     _checkers |-> UNIVERSAL_SET, _pinned |-> UNIVERSAL_SET, _king_square |-> 64]

(* A faulty undo_move: the castling rights of the side that moved are left as the
   move has made them. *)
mutant_Board_undo_move(b, m) ==
    board_before(b, m, set_for(b.castling, b.to_move, m.castling_data), unplay(b, m))

(* Board::undo_move (position/board.rs lines 563-678): the board it leaves. *)
Board_undo_move(b, m) ==
    LET restored_for_them == set_for(b.castling, b.to_move, m.castling_data)
    IN  board_before(b, m,
                     IF m.move_type /= MOVE_PROMOTION
                     THEN set_for(restored_for_them, 1 - b.to_move, m.aux_data)
                     ELSE restored_for_them,
                     unplay(b, m))
(***************************************************************************)
(* Position (search/position/mod.rs) over the board of                     *)
(* position/move_generation.rs.  That board generates its moves as         *)
(* position/board.rs does; it keeps no hash, and of the lazily calculated  *)
(* values it saves the checkers only.                                      *)
(***************************************************************************)

(* Board::do_move (position/move_generation.rs lines 531-659): Some(h) with the board
   it leaves, or None. *)
MoveGenerator_do_move(b, m) ==
    LET played_with(p) ==
            [ok |-> TRUE, h |-> p.h,
             board |-> [b EXCEPT !.piece_type = p.piece_type, !.color = p.color,
                                 !.to_move = p.to_move, !.castling = p.castling,
                                 !.en_passant_file = p.en_passant_file,
                                 !._occupied = p.color[WHITE] \cup p.color[BLACK],
                                 !._checkers = UNIVERSAL_SET]]
    IN  IF leaves_king_in_check(b, m)
        THEN [ok |-> FALSE, h |-> {},
              board |-> [b EXCEPT !._checkers = IF m.piece = KING /\ m.orig_square = m.dest_square
                                                THEN checkers(b) ELSE @]]
        ELSE played_with(play(b, m))

(* Board::undo_move (position/move_generation.rs lines 665-740). *)
MoveGenerator_undo_move(b, m) ==
    LET board_before_with(u) ==
            [b EXCEPT !.piece_type = u.piece_type, !.color = u.color,
                      !.to_move = 1 - b.to_move, !.castling = m.castling,
                      !.en_passant_file = m.en_passant_file,
                      !._occupied = u.color[WHITE] \cup u.color[BLACK],
                      !._checkers = UNIVERSAL_SET]
    IN  board_before_with(unplay(b, m))

PositionInfo(halfmove_clock, last_move) ==
    [halfmove_clock |-> halfmove_clock, last_move |-> last_move]

(* A faulty from_fen: the halfmove clock is taken over as the FEN string has it. *)
mutant_Position_from_fen(b, halfmove_clock, fullmove_number) ==
    [position |-> [b EXCEPT !._hash = {}],
     board_hash |-> calc_hash(b),
     halfmove_count |-> 2 * (fullmove_number - 1) + b.to_move,
     repeated_or_rule50 |-> FALSE,
     encountered_boards |-> [i \in 1..halfmove_clock |-> {}],
     repeated_boards_hash |-> {},
     state_stack |-> <<PositionInfo(halfmove_clock, None)>>]

(* Position::from_fen (lines 73-105), the board given as Board::create has made it. *)
Position_from_fen(b, halfmove_clock, fullmove_number) ==
    [position |-> [b EXCEPT !._hash = {}],
     board_hash |-> calc_hash(b),
     halfmove_count |-> 2 * (fullmove_number - 1) + b.to_move,
     repeated_or_rule50 |-> FALSE,
     encountered_boards |-> [i \in 1..halfmove_clock |-> {}],
     repeated_boards_hash |-> {},
     state_stack |-> <<PositionInfo(min(halfmove_clock, 99), None)>>]

(* A faulty is_checkmate: no position is a checkmate. *)
mutant_is_checkmate(b) == FALSE

(* Position::is_checkmate (lines 391-411). *)
is_checkmate(b) ==
    /\ checkers(b) /= EMPTY_SET
    /\ \A m \in generate_moves(b, TRUE) : ~MoveGenerator_do_move(b, m).ok

(* The board once is_checkmate has run on it and returned `checkmate`: checkers()
   saves the checkers, and the undo_move of a move that could be played forgets them. *)
checkmate_tested(b, checkmate) ==
    IF checkmate \/ checkers(b) = EMPTY_SET THEN [b EXCEPT !._checkers = checkers(b)] ELSE b

(* A faulty search for a repetition: it starts six plies back. *)
mutant_is_repeated(boards, board_hash, halfmove_clock) ==
    /\ halfmove_clock >= 4
    /\ \E i \in 0..(Len(boards) - 6) :
           /\ i >= Len(boards) - halfmove_clock
           /\ (Len(boards) - 6 - i) % 2 = 0
           /\ board_hash = boards[i + 1]

(* Whether the board reached is one of the boards encountered since the last
   irreversible move, two plies apart: lines 669-682. *)
is_repeated(boards, board_hash, halfmove_clock) ==
    /\ halfmove_clock >= 4
    /\ \E i \in 0..(Len(boards) - 4) :
           /\ i >= Len(boards) - halfmove_clock
           /\ (Len(boards) - 4 - i) % 2 = 0
           /\ board_hash = boards[i + 1]

(* A faulty do_move: a board found in the history does not mark the position. *)
mutant_played_node(n, m, r) ==
    LET x == Last(n.state_stack).halfmove_clock
        rule50 == ~is_pawn_advance_or_capure(m) /\ x >= 99
        halfmove_clock == IF is_pawn_advance_or_capure(m) THEN 0
                          ELSE IF x < 99 THEN x + 1 ELSE 99
        node_after(checkmate) ==
            [position |-> IF rule50 THEN checkmate_tested(r.board, checkmate) ELSE r.board,
             board_hash |-> xor(n.board_hash, r.h),
             halfmove_count |-> n.halfmove_count + 1,
             repeated_or_rule50 |-> n.repeated_or_rule50 \/ (rule50 /\ ~checkmate),
             encountered_boards |-> Append(n.encountered_boards, n.board_hash),
             repeated_boards_hash |-> n.repeated_boards_hash,
             state_stack |-> Append(n.state_stack, PositionInfo(halfmove_clock, m))]
    IN  node_after(is_checkmate(r.board))

(* Position::do_move once the board has played the move, lines 649-690: `r` is what
   the board has returned. *)
played_node(n, m, r) ==
    LET x == Last(n.state_stack).halfmove_clock
        rule50 == ~is_pawn_advance_or_capure(m) /\ x >= 99
        halfmove_clock == IF is_pawn_advance_or_capure(m) THEN 0
                          ELSE IF x < 99 THEN x + 1 ELSE 99
        node_after(checkmate) ==
            [position |-> IF rule50 THEN checkmate_tested(r.board, checkmate) ELSE r.board,
             board_hash |-> xor(n.board_hash, r.h),
             halfmove_count |-> n.halfmove_count + 1,
             repeated_or_rule50 |->
                 \/ n.repeated_or_rule50
                 \/ rule50 /\ ~checkmate
                 \/ is_repeated(Append(n.encountered_boards, n.board_hash),
                                xor(n.board_hash, r.h), halfmove_clock),
             encountered_boards |-> Append(n.encountered_boards, n.board_hash),
             repeated_boards_hash |-> n.repeated_boards_hash,
             state_stack |-> Append(n.state_stack, PositionInfo(halfmove_clock, m))]
    IN  node_after(is_checkmate(r.board))

(* What do_move returns and the node it leaves when the board has returned `r`. *)
mutant_node_returned(n, m, r) ==
    IF ~r.ok
    THEN [ok |-> FALSE,
          node |-> [n EXCEPT !.position = r.board,
                             !.encountered_boards = Append(@, n.board_hash)]]
    ELSE [ok |-> TRUE, node |-> played_node(n, m, r)]
node_returned(n, m, r) ==
    IF ~r.ok THEN [ok |-> FALSE, node |-> [n EXCEPT !.position = r.board]]
    ELSE [ok |-> TRUE, node |-> played_node(n, m, r)]

(* A faulty do_move: the board hash is pushed to the history before the move is
   tried. *)
mutant_SearchNode_do_move(n, m) ==
    IF n.repeated_or_rule50 /\ is_null(m) THEN [ok |-> FALSE, node |-> n]
    ELSE mutant_node_returned(n, m, MoveGenerator_do_move(n.position, m))

(* Position::do_move (search/position/mod.rs lines 640-693): what it returns and the
   node it leaves. *)
SearchNode_do_move(n, m) ==
    IF n.repeated_or_rule50 /\ is_null(m) THEN [ok |-> FALSE, node |-> n]
    ELSE node_returned(n, m, MoveGenerator_do_move(n.position, m))

(* A faulty undo_move: the flag of the draw is left as the move has set it. *)
mutant_SearchNode_undo_move(n) ==
    [position |-> MoveGenerator_undo_move(n.position, Last(n.state_stack).last_move),
     board_hash |-> Last(n.encountered_boards),
     halfmove_count |-> n.halfmove_count - 1,
     repeated_or_rule50 |-> n.repeated_or_rule50,
     encountered_boards |-> Pop(n.encountered_boards),
     repeated_boards_hash |-> n.repeated_boards_hash,
     state_stack |-> Pop(n.state_stack)]

(* Position::undo_move (search/position/mod.rs lines 696-705). *)
SearchNode_undo_move(n) ==
    [position |-> MoveGenerator_undo_move(n.position, Last(n.state_stack).last_move),
     board_hash |-> Last(n.encountered_boards),
     halfmove_count |-> n.halfmove_count - 1,
     repeated_or_rule50 |-> FALSE,
     encountered_boards |-> Pop(n.encountered_boards),
     repeated_boards_hash |-> n.repeated_boards_hash,
     state_stack |-> Pop(n.state_stack)]

(* `halfmove_clock` is not blended into the position's hash until it gets greater
   or equal to this number. *)
HALFMOVE_CLOCK_THRESHOLD == 70

(* The hash value 1: no combination of Zobrist keys. *)
hash_one == {<<"1", 0, 0, 0>>}

(* Position::root_is_reachable (lines 387-389). *)
root_is_reachable(n) == Len(n.encountered_boards) <= Last(n.state_stack).halfmove_clock

(* A faulty hash: the halfmove clock is blended into the hash of a drawn position
   too. *)
mutant_Position_hash(n) ==
    xor(IF n.repeated_or_rule50 THEN hash_one
        ELSE IF ~root_is_reachable(n) THEN n.board_hash
        ELSE xor(n.board_hash, n.repeated_boards_hash),
        IF Last(n.state_stack).halfmove_clock < HALFMOVE_CLOCK_THRESHOLD THEN {}
        ELSE {<<"halfmove_clock", Last(n.state_stack).halfmove_clock, 0, 0>>})

(* Position::hash (search/position/mod.rs lines 454-495). *)
Position_hash(n) ==
    IF n.repeated_or_rule50 THEN hash_one
    ELSE xor(IF ~root_is_reachable(n) THEN n.board_hash
             ELSE xor(n.board_hash, n.repeated_boards_hash),
             IF Last(n.state_stack).halfmove_clock < HALFMOVE_CLOCK_THRESHOLD THEN {}
             ELSE {<<"halfmove_clock", Last(n.state_stack).halfmove_clock, 0, 0>>})

(* Position::evaluate_final (search/position/mod.rs lines 523-529). *)
SearchNode_evaluate_final(n) ==
    IF n.repeated_or_rule50 \/ checkers(n.position) = EMPTY_SET THEN 0 ELSE VALUE_MIN

(* Position::generate_moves (search/position/mod.rs lines 602-606): the moves that
   are pushed. *)
SearchNode_generate_moves(n) ==
    IF n.repeated_or_rule50 THEN {} ELSE generate_moves(n.position, TRUE)

(* A faulty set_non_repeated_values: the values that are repeated are forgotten
   with the others. *)
mutant_set_non_repeated_values(slice, value) ==
    [slice |-> [i \in DOMAIN slice |-> value], repeated |-> {}]

(* set_non_repeated_values (search/position/mod.rs lines 771-791): the slice it
   leaves and the values it returns; the sorted vector without duplicates is a set. *)
set_non_repeated_values(slice, value) ==
    LET repeated == {x \in {slice[i] : i \in DOMAIN slice} :
                        x /= value /\ \E i, j \in DOMAIN slice : i /= j /\ slice[i] = x /\ slice[j] = x}
    IN  [slice |-> [i \in DOMAIN slice |-> IF slice[i] \in repeated THEN slice[i] ELSE value],
         repeated |-> repeated]

(* A faulty declare_as_root: the flag of the draw stays. *)
mutant_declare_as_root(n) ==
    LET state == Last(n.state_stack)
        last_irrev == Len(n.encountered_boards) - state.halfmove_clock
        boards(r) ==
            [n EXCEPT !.encountered_boards = r.slice,
                      !.repeated_boards_hash = IF r.repeated = {} THEN {}
                                               ELSE {<<"SipHasher", r.repeated, 0, 0>>},
                      !.state_stack = <<state>>]
    IN  boards(set_non_repeated_values(SubSeq(n.encountered_boards, last_irrev + 1,
                                              Len(n.encountered_boards)), {}))

(* Position::declare_as_root (search/position/mod.rs lines 348-382). The collective
   hash of the repeated boards is a key of its own for every set of boards. *)
declare_as_root(n) ==
    LET state == Last(n.state_stack)
        last_irrev == Len(n.encountered_boards) - state.halfmove_clock
        boards(r) ==
            [n EXCEPT !.repeated_or_rule50 = FALSE,
                      !.encountered_boards = r.slice,
                      !.repeated_boards_hash = IF r.repeated = {} THEN {}
                                               ELSE {<<"SipHasher", r.repeated, 0, 0>>},
                      !.state_stack = <<state>>]
    IN  boards(set_non_repeated_values(SubSeq(n.encountered_boards, last_irrev + 1,
                                              Len(n.encountered_boards)), {}))

(* Move::notation (basetypes/moves.rs lines 305-313): the squares stand for their
   names. *)
notation(m) ==
    <<m.orig_square, m.dest_square,
      IF m.move_type = MOVE_PROMOTION THEN <<"q", "r", "b", "n">>[m.aux_data + 1] ELSE "">>

(* The loop of from_history (lines 436-447) over the moves that are left: the
   position played so far, the boards that have occurred with the moves played on
   them, and whether every move could be played. *)
RECURSIVE play_history(_, _, _)
play_history(n, occurred, played_moves) ==
    IF played_moves = <<>> THEN [ok |-> TRUE, node |-> n, occurred |-> occurred]
    ELSE \* at most one generated move has the notation
         LET found == {m \in generate_moves(n.position, TRUE) : notation(m) = Head(played_moves)}
             generated_node == [n EXCEPT !.position._checkers = checkers(n.position)]
             tried(r) ==
                 IF ~r.ok THEN [ok |-> FALSE, node |-> r.node, occurred |-> occurred]
                 ELSE play_history(r.node,
                                   Append(occurred, [board |-> calc_hash(n.position),
                                                     m |-> CHOOSE m \in found : TRUE]),
                                   Tail(played_moves))
         IN  IF found = {} THEN [ok |-> FALSE, node |-> n, occurred |-> occurred]
             ELSE tried(SearchNode_do_move(generated_node, CHOOSE m \in found : TRUE))

(* Position::from_history (search/position/mod.rs lines 433-451) for the board and
   the counters of the FEN string: the position created, unless a move is illegal. *)
Position_from_history(b, halfmove_clock, fullmove_number, played_moves) ==
    LET declared(r) == IF r.ok THEN [r EXCEPT !.node = declare_as_root(r.node)] ELSE r
    IN  declared(play_history(Position_from_fen(b, halfmove_clock, fullmove_number),
                              <<>>, played_moves))

(* The boards of test_do_undo_move (position/board.rs lines 1693-1725):
   "b3k2r/6P1/8/5pP1/8/8/6P1/R3K2R w kKQ f6 0 1" and
   "b3k2r/6P1/8/5pP1/8/8/8/R3K2R b kKQ - 0 1". *)
placement_of(pieces) ==
    [piece_type |-> [i \in KING..PAWN |-> {p[3] : p \in {q \in pieces : q[2] = i}}],
     color |-> [c \in WHITE..BLACK |-> {p[3] : p \in {q \in pieces : q[1] = c}}]]

TestPieces ==
    {<<BLACK, BISHOP, 56>>, <<BLACK, KING, 60>>, <<BLACK, ROOK, 63>>, <<WHITE, PAWN, 54>>,
     <<BLACK, PAWN, 37>>, <<WHITE, PAWN, 38>>, <<WHITE, ROOK, 0>>, <<WHITE, KING, 4>>,
     <<WHITE, ROOK, 7>>}

TestBoards ==
    {Board_create(placement_of(TestPieces \cup {<<WHITE, PAWN, 14>>}), WHITE, 11, {45}),
     Board_create(placement_of(TestPieces), BLACK, 11, {})}

(* The board "4r2k/3p4/8/4P3/4K3/8/8/8 b - -": once the pawn d7 has gone to d5 it
   gives check and can be captured in passing by the pawn e5, which the rook e8
   pins. *)
PinnedPawnBoards ==
    {Board_create(placement_of({<<BLACK, ROOK, 60>>, <<BLACK, KING, 63>>, <<BLACK, PAWN, 51>>,
                                <<WHITE, PAWN, 36>>, <<WHITE, KING, 28>>}), BLACK, 0, {})}

(* The number of moves the owner of a board plays before it takes one back. *)
MaxPlies == 2

(* The same for the owner of a Position created from a playing history: enough for
   a board to come back. *)
MaxCyclePlies == 4

(* The board of the test is_repeated (search/position/mod.rs lines 1017-1035),
   "8/5p1b/5Pp1/6P1/6p1/3p1pPk/3PpP2/4B2K w - - 0 1", where the pawns are locked, and
   the board of test_create_repeated (lines 996-1005), "8/8/8/8/6k1/6P1/8/6K1 b - - 0 1". *)
LockedBoard ==
    Board_create(placement_of({<<BLACK, PAWN, 53>>, <<BLACK, BISHOP, 55>>, <<WHITE, PAWN, 45>>,
                               <<BLACK, PAWN, 46>>, <<WHITE, PAWN, 38>>, <<BLACK, PAWN, 30>>,
                               <<BLACK, PAWN, 19>>, <<BLACK, PAWN, 21>>, <<WHITE, PAWN, 22>>,
                               <<BLACK, KING, 23>>, <<WHITE, PAWN, 11>>, <<BLACK, PAWN, 12>>,
                               <<WHITE, PAWN, 13>>, <<WHITE, BISHOP, 4>>, <<WHITE, KING, 7>>}),
                 WHITE, 0, {})
KingsBoard ==
    Board_create(placement_of({<<BLACK, KING, 30>>, <<WHITE, PAWN, 22>>, <<WHITE, KING, 6>>}),
                 BLACK, 0, {})

(* The moves h1g1 h7g8 g1h1 g8h7 h1g1 h7g8 g1h1, which go twice round the locked
   board, and the moves of test_create_repeated, g4f3 g1f1 f3g4 f1g1 g4f3 g1f1 f3g4. *)
LockedCycle ==
    <<<<7, 6, "">>, <<55, 62, "">>, <<6, 7, "">>, <<62, 55, "">>,
      <<7, 6, "">>, <<55, 62, "">>, <<6, 7, "">>>>
KingsCycle ==
    <<<<30, 21, "">>, <<6, 5, "">>, <<21, 30, "">>, <<5, 6, "">>,
      <<30, 21, "">>, <<6, 5, "">>, <<21, 30, "">>>>

(* The playing histories a node is created from: the locked board after each number
   of moves of its cycle, after a move on the eve of the fiftieth move, and with a
   move that is not legal; and the history of test_create_repeated. *)
Histories ==
    {<<LockedBoard, 0, 1, SubSeq(LockedCycle, 1, k)>> : k \in 0..Len(LockedCycle)}
        \cup {<<LockedBoard, 99, 50, <<<<7, 6, "">>>>>>, <<LockedBoard, 0, 1, <<<<7, 15, "">>>>>>,
               <<KingsBoard, 0, 1, KingsCycle>>}

(* The board of the test is_checkmate (search/position/mod.rs lines 1037-1044) a move
   before: "8/8/8/8/8/7K/5R2/7k w - -", where f2f1 delivers the checkmate. *)
MateInOneBoard ==
    Board_create(placement_of({<<WHITE, KING, 23>>, <<WHITE, ROOK, 13>>, <<BLACK, KING, 7>>}),
                 WHITE, 0, {})

(* The positions a node is created from: the boards of the test with the halfmove
   clock and the move number of their FEN strings, the second of them on the eve
   of the fiftieth move as well, and the checkmate in one move with one and with no
   move left before the fiftieth, and with the fiftieth past. *)
TestPositions ==
    {<<b, 0, 1>> : b \in TestBoards} \cup {<<b, 99, 50>> : b \in {c \in TestBoards : c.to_move = BLACK}}
        \cup {<<MateInOneBoard, c, 60>> : c \in {98, 99, 100}}

(* The board once generate_moves (lines 232-273) and null_move (line 381) have run on
   it: they save the king's square, the checkers and, unless the king is in double
   check, the pinned pieces. *)
generated(b) == saved(b, TRUE, Cardinality(checkers(b)) < 2)

(* The moves a caller may pass to do_move: those of generate_moves and the null move.
   The moves generated when `all` is false are among those generated when it is true. *)
playable(b) == generate_moves(b, TRUE) \cup {null_move(b)}

(* What the owner keeps of a call: the operation, its move, what do_move returned, and
   the state P the call was to keep (a rejected do_move) or to restore (an undo_move). *)
NoOp == [op |-> "none"]
Op(op, m, ok, P) == [op |-> op, m |-> m, ok |-> ok, P |-> P]
Undone(m, P) == Op("undo_move", [move_type |-> m.move_type], TRUE, P)
Played(m, P) == [m |-> m, P |-> P]

(* The owner of a Board creates it. *)
board_create ==
    /\ component \in {"board", "digest"}
    /\ board = None
    /\ board' \in (IF component = "digest" THEN PinnedPawnBoards ELSE TestBoards)
    /\ UNCHANGED <<component, next_id, observer_vars, outside_board, board_played, board_op>>

(* The owner generates the moves and plays one of them, or the null move. *)
board_do_move ==
    /\ component \in {"board", "digest"}
    /\ board /= None
    /\ Len(board_played) < MaxPlies
    /\ \E b \in {generated(board)} :
           \E m \in playable(b) :
               \E r \in {Board_do_move(b, m)} :
                   /\ board' = r.board
                   /\ board_played' = IF r.ok THEN Append(board_played, Played(m, board))
                                      ELSE board_played
                   /\ board_op' = Op("do_move", m, r.ok, board)
    /\ UNCHANGED <<component, next_id, observer_vars, outside_board>>

(* The owner takes back the last move played. *)
board_undo_move ==
    /\ component \in {"board", "digest"}
    /\ board_played /= <<>>
    /\ board' = Board_undo_move(board, Last(board_played).m)
    /\ board_played' = Pop(board_played)
    /\ board_op' = Undone(Last(board_played).m, Last(board_played).P)
    /\ UNCHANGED <<component, next_id, observer_vars, outside_board>>

BoardInit ==
    /\ board = None
    /\ board_played = <<>>
    /\ board_op = NoOp

(* The owner of a Position creates it from a FEN string. *)
node_from_fen ==
    /\ component = "position"
    /\ node = None
    /\ \E p \in TestPositions : node' = Position_from_fen(p[1], p[2], p[3])
    /\ node_history' = <<>>
    /\ UNCHANGED <<component, next_id, observer_vars, outside_position, node_played, node_op>>

(* The owner of a Position creates it from a playing history. *)
node_from_history ==
    /\ component = "history"
    /\ node = None
    /\ node_op = NoOp
    /\ \E h \in Histories :
           \E r \in {Position_from_history(h[1], h[2], h[3], h[4])} :
               /\ node' = IF r.ok THEN r.node ELSE None
               /\ node_history' = IF r.ok THEN r.occurred ELSE <<>>
               /\ node_op' = Op("from_history", None, r.ok, None)
    /\ UNCHANGED <<component, next_id, observer_vars, outside_position, node_played>>

(* The owner generates the moves and plays one of them, or the null move. *)
node_do_move ==
    /\ component \in {"position", "history"}
    /\ node /= None
    /\ Len(node.state_stack) <= (IF component = "history" THEN MaxCyclePlies ELSE MaxPlies)
    /\ \E n \in {[node EXCEPT !.position._checkers = checkers(node.position)]} :
           \E m \in playable(n.position) :
               \E r \in {SearchNode_do_move(n, m)} :
                   /\ node' = r.node
                   /\ node_played' = IF r.ok THEN Append(node_played, Played(m, node))
                                     ELSE node_played
                   /\ node_op' = Op("do_move", m, r.ok, node)
                   /\ node_history' =
                          IF r.ok THEN Append(node_history, [board |-> calc_hash(node.position),
                                                             m |-> m])
                          ELSE node_history
    /\ UNCHANGED <<component, next_id, observer_vars, outside_position>>

(* The owner takes back the last move played. *)
node_undo_move ==
    /\ component \in {"position", "history"}
    /\ node /= None
    /\ Len(node.state_stack) > 1
    /\ node' = SearchNode_undo_move(node)
    /\ node_played' = Pop(node_played)
    /\ node_history' = Pop(node_history)
    /\ node_op' = Undone(Last(node_played).m, Last(node_played).P)
    /\ UNCHANGED <<component, next_id, observer_vars, outside_position>>

PositionInit ==
    /\ node = None
    /\ node_played = <<>>
    /\ node_op = NoOp
    /\ node_history = <<>>

(* Every component starts as it is constructed. *)
ComponentsInit ==
    /\ ObserverInit /\ ThreadsInit /\ SearcherInit /\ SearchInit /\ MultipvInit
    /\ AspirationInit /\ BoardInit /\ PositionInit /\ QuiescenceInit /\ VariationInit

InitThreads == component = "threads" /\ ComponentsInit
NextThreads == Controller \/ Slave \/ Master

InitSearcher == component = "searcher" /\ ComponentsInit
Lower == searcher_progress \/ searcher_done
Client == deepening_start_search \/ deepening_terminate_search \/ deepening_try_recv_report
NextSearcher == Lower \/ Client

(* The orchestration: either layer of iterative deepening. *)
Init == InitThreads \/ InitSearcher
Next == NextThreads \/ NextSearcher
Spec == Init /\ [][Next]_vars

(* The threads under the scheduling of the operating system: a thread that can take
   a step eventually takes one. *)
FairSpec == InitThreads /\ [][NextThreads]_vars /\ WF_vars(Slave) /\ WF_vars(Master)

(* Search::run, called with a finite depth, returns (threading.rs, lines 137-139):
   the slave's search does not report progress forever. *)
search_returns == serve_simple_check /\ slave_pc' = "recv"
FairSpecReturning ==
    /\ InitThreads /\ [][NextThreads]_vars
    /\ WF_vars(Slave) /\ WF_vars(Master) /\ WF_vars(search_returns)

(* The principal variation search and its owner. *)
InitSearch == component = "search" /\ ComponentsInit
Owner == Search_new \/ Search_run \/ Search_reset
Run == run_begin \/ run_try_move \/ run_return \/ run_terminated
NextSearch == Owner \/ Run
SpecSearch == InitSearch /\ [][NextSearch]_vars

(* The multi-PV searcher, its lower searcher and its client. *)
InitMultipv == component = "multipv" /\ ComponentsInit
Aspiration == aspiration_progress \/ aspiration_done
MultipvClient == multipv_start_search \/ multipv_terminate_search \/ multipv_try_recv_report
NextMultipv == Aspiration \/ MultipvClient
SpecMultipv == InitMultipv /\ [][NextMultipv]_vars

(* The aspiration searcher, its lower searcher and its client. *)
InitAspiration == component = "aspiration" /\ ComponentsInit
AspiratedSearch == aspirated_search_progress \/ aspirated_search_done
AspirationClient ==
    \/ AspirationSearcher_lmr_mode
    \/ AspirationSearcher_start_search
    \/ AspirationSearcher_terminate_search
    \/ AspirationSearcher_try_recv_report
NextAspiration == AspiratedSearch \/ AspirationClient
SpecAspiration == InitAspiration /\ [][NextAspiration]_vars

(* The two aspiration loops: serve_deepening over its slave, and the
   AspirationSearcher over its lower searcher. *)
InitWindows == component \in {"threads", "aspiration"} /\ ComponentsInit
NextWindows == NextThreads \/ NextAspiration
SpecWindows == InitWindows /\ [][NextWindows]_vars

(* The boards: the Board of position/board.rs, or a Position, created from a FEN
   string or from a playing history, over the board of
   position/move_generation.rs. *)
InitBoards == component \in {"board", "digest", "position", "history"} /\ ComponentsInit
BoardOwner == board_create \/ board_do_move \/ board_undo_move
PositionOwner == node_from_fen \/ node_from_history \/ node_do_move \/ node_undo_move
NextBoards == BoardOwner \/ PositionOwner
SpecBoards == InitBoards /\ [][NextBoards]_vars

(* The quiescence search and the extraction of the primary variation, each with its
   caller. *)
InitEvaluation == component \in {"quiescence", "variation"} /\ ComponentsInit
QuiescenceCaller == quiescence_position \/ quiescence_parent \/ Position_evaluate_quiescence
VariationCaller == Tt_store \/ pv_extract
NextEvaluation == QuiescenceCaller \/ VariationCaller
SpecEvaluation == InitEvaluation /\ [][NextEvaluation]_vars

----------------------------------------------------------------------------
(* Properties of the orchestration. *)

(* C1: for every search id at most one report with done = true is delivered,
   whatever commands (Stop, a new Search, Exit) arrive while the search runs. *)
C1_AtMostOneDone == \A id \in SearchIds : received.done_count[id] <= 1

(* A search ended by a command that arrived while it ran: its done report has been
   delivered and the command is still pending. *)
C1_Witness ==
    /\ component = "threads"
    /\ pc = "recv"
    /\ pending_command /= None
    /\ received.done_count[cmd.search_id] = 1

(* C2: within a search id the depth of each report is greater than or equal to the
   depth of every earlier report; reports of an earlier search do not come after
   reports of a later one, so it is enough to compare each report with the one
   before it. *)
C2_DepthNonDecreasing ==
    [][received.last /= None =>
          /\ received'.last.search_id >= received.last.search_id
          /\ received'.last.search_id = received.last.search_id =>
                 received'.last.depth >= received.last.depth]_vars

(* A search that has reported several depths. *)
C2_Witness == received.last /= None /\ received.last.depth >= 2 /\ ~received.last.done

(* serve_deepening is serving a search. *)
Running == pc \in {"report", "reported", "completed", "final"}

(* serve_deepening has left the search it served, whose done report is delivered. *)
Served ==
    /\ pc \in {"recv", "join", "exited"}
    /\ cmd /= None
    /\ received.done_count[cmd.search_id] = 1

(* A Stop command has been sent and not yet been served. *)
StopSent == pending_command = Stop \/ \E i \in DOMAIN commands : commands[i] = Stop

(* C3: after a Stop command sent while a search is running, the running search reads
   the request at its next progress check (the check that finds a command ends the
   search with a done report of unknown value), and a report with done = true is
   eventually delivered for that search. *)
C3_StopLeadsToDone ==
    /\ [][(slave_pc = "search" /\ slave_commands /= <<>> /\ slave_pc' /= slave_pc) =>
             /\ slave_pc' = "recv"
             /\ slave_pending' = Head(slave_commands)
             /\ slave_reports' = Append(slave_reports,
                                        Report(slave_cmd.search_id, 0, VALUE_UNKNOWN, TRUE))]_vars
    /\ (Running /\ StopSent) ~> Served

(* A search ended by a Stop command: the slave has read it at a progress check, and
   the done report of the search has been delivered. *)
C3_Witness ==
    /\ component = "threads"
    /\ pc = "recv"
    /\ pending_command = Stop
    /\ slave_pc = "recv"
    /\ slave_pending = Stop
    /\ received.last.done
    /\ received.done_count[cmd.search_id] = 1

(* The search whose reports are being delivered has been asked to terminate. *)
Terminated ==
    \/ component = "threads" /\ pending_command /= None
    \/ component = "searcher" /\ deepening.search_is_terminated

(* C4: the done = true report of a terminated search carries the value of the
   deepest fully completed iteration, or the unknown value if nothing completed. *)
C4_TerminatedValue ==
    [][(received' /= received /\ received'.last.done /\ Terminated) =>
          received'.last.value = completed'.value]_vars

(* serve_deepening commands the slave to search depth k. *)
SlaveStarted(k) ==
    /\ Len(slave_commands') = Len(slave_commands) + 1
    /\ slave_commands'[Len(slave_commands')].type = "Search"
    /\ slave_commands'[Len(slave_commands')].depth = k

(* DeepeningSearcher starts the lower search of depth k. *)
LowerStarted(k) == ~searcher.searching /\ searcher'.searching /\ searcher'.depth = k

(* C5: when the lower searcher reports done at depth d, the search for depth d+1 is
   started if d < params.depth and the search has not been canceled; no deeper search
   is started once depth params.depth is done or the search has been canceled. *)
C5_NextDepthStarted ==
    [][/\ \* serve_deepening: the step after a completed depth starts the next one
          (pc = "completed" /\ pc' /= pc) =>
              /\ completed.depth = current_depth
              /\ SlaveStarted(current_depth + 1) <=> current_depth < cmd.depth
       /\ \A k \in 2..(MaxDepth + 1) :
             SlaveStarted(k) =>
                 /\ completed'.depth = k - 1
                 /\ k <= cmd.depth
                 /\ pending_command' = None
       /\ \* DeepeningSearcher: the call that receives the done report starts it
          (searcher_reports /= <<>> /\ searcher_reports' = Tail(searcher_reports)) =>
              LET r == Head(searcher_reports)
              IN  /\ (r.done /\ r.depth > 0) =>
                        (LowerStarted(r.depth + 1) <=>
                            (r.depth < deepening.params.depth
                               /\ ~deepening.search_is_terminated))
                  /\ ~(r.done /\ r.depth > 0) =>
                        \A k \in 1..(MaxDepth + 1) : ~LowerStarted(k)
      ]_vars

(* The last depth of a search has been done and no deeper search has been started. *)
C5_Witness ==
    \/ /\ component = "threads"
       /\ pc = "final"
       /\ pending_command = None
       /\ completed.depth = cmd.depth
       /\ cmd.depth = MaxDepth
    \/ /\ component = "searcher"
       /\ deepening.params /= None
       /\ deepening.depth = deepening.params.depth
       /\ deepening.depth = MaxDepth
       /\ ~searcher.searching

(* C6: every report sent outward by the iterative-deepening layer advertises, in its
   depth field, the highest depth whose search has fully completed so far. *)
C6_AdvertisedDepth ==
    [][received' /= received => received'.last.depth = completed'.depth]_vars

(* A report sent while a deeper search is under way. *)
C6_Witness ==
    /\ received.last /= None
    /\ ~received.last.done
    /\ received.last.depth = MaxDepth - 1
    /\ \/ component = "threads" /\ current_depth = MaxDepth /\ pc = "report"
       \/ component = "searcher" /\ searcher.searching /\ searcher.depth = MaxDepth

----------------------------------------------------------------------------
(* Properties of the principal variation search. *)

Unwinding == stack /= <<>> /\ Last(stack).pc = "terminated"

(* C7: when the progress callback returns "terminate", the search unwinds through
   all recursion levels to its caller with the termination signal: the step in which
   the callback answers, and every step while the signal travels, leaves the
   transposition table as it is; every step of the unwinding removes the innermost
   call and hands the signal to the call below it, and the removal of the outermost
   call gives the owner Err(TerminatedSearch). *)
C7_TerminationUnwinds ==
    [][/\ (stack' /= <<>> /\ Last(stack').pc = "terminated") => tt' = tt
       /\ Unwinding =>
             /\ tt' = tt
             /\ Len(stack') = Len(stack) - 1
             /\ stack' /= <<>> => Last(stack').pc = "terminated"
             /\ stack' = <<>> => search_pc' = "terminated"
                                 /\ search_result' = TerminatedSearch
       /\ (search_pc' = "terminated" /\ search_pc /= "terminated") => Unwinding]_vars

(* A search terminated three calls deep, with results of completed subtrees in the
   transposition table and none for the root. *)
C7_Witness ==
    /\ component = "search"
    /\ search_pc = "terminated"
    /\ search_result = TerminatedSearch
    /\ Len(state_stack) >= 3
    /\ DOMAIN tt /= {}
    /\ hash(<<>>) \notin DOMAIN tt

----------------------------------------------------------------------------
(* Properties of the multi-PV searcher. *)

(* C8: every candidate move played on the root position is unplayed again: when the
   search is done, completed or terminated, the root position the searcher holds
   equals the position given to start_search. *)
C8_RootRestored ==
    (component = "multipv" /\ multipv_report /= None /\ multipv_report.done
     /\ multipv_pc = "idle")
        => multipv.params.position = root

(* What a board holds of the position: the piece placement, the side to move, the
   castling rights and the en-passant file.  The lazily saved values are left out. *)
position_of(b) ==
    [piece_type |-> b.piece_type, color |-> b.color, to_move |-> b.to_move,
     castling |-> b.castling, en_passant_file |-> b.en_passant_file]

(* C9: undo_move is the exact inverse of a do_move that has succeeded: once a move
   generated for a position P has been played and taken back, the piece placement, the
   side to move, the castling rights, the en-passant file, the hash and the checkers
   are those of P, on the Board of position/board.rs and on the board and the board
   hash of a Position alike. *)
C9_UnmakeIsInverse ==
    /\ (component = "board" /\ board_op.op = "undo_move") =>
           /\ position_of(board) = position_of(board_op.P)
           /\ board._occupied = board_op.P._occupied
           /\ board._hash = board_op.P._hash
           /\ checkers(board) = checkers(board_op.P)
    /\ (component = "position" /\ node_op.op = "undo_move") =>
           /\ position_of(node.position) = position_of(node_op.P.position)
           /\ node.position._occupied = node_op.P.position._occupied
           /\ node.board_hash = node_op.P.board_hash
           /\ checkers(node.position) = checkers(node_op.P.position)

(* White has castled on the second ply, and the castling has been taken back. *)
C9_Witness ==
    /\ component = "board"
    /\ board_op.op = "undo_move"
    /\ board_op.m.move_type = MOVE_CASTLING
    /\ Len(board_played) = 1
    /\ board.to_move = WHITE

(* Whether the side that plays `m` on `b` has its king attacked once the move is
   played. *)
king_left_in_check(b, m) ==
    LET p == play(b, m)
        after == [b EXCEPT !.piece_type = p.piece_type, !.color = p.color,
                           !._occupied = p.color[WHITE] \cup p.color[BLACK]]
    IN  attacks_to(after, 1 - b.to_move,
                   CHOOSE s \in p.piece_type[KING] \cap p.color[b.to_move] : TRUE) /= {}

(* The reasons for which do_move rejects a move. *)
rejectable(b, m, drawn) ==
    \/ m.orig_square /= m.dest_square /\ king_left_in_check(b, m)
    \/ m.move_type = MOVE_CASTLING
       /\ attacks_to(b, 1 - b.to_move, (m.orig_square + m.dest_square) \div 2) /= {}
    \/ m.orig_square = m.dest_square
       /\ (drawn \/ attacks_to(b, 1 - b.to_move, m.orig_square) /= {})

(* C10: a do_move that rejects its move has one of the reasons to reject it, and it
   leaves the board and the history of the search node as they were: the piece
   placement, the side to move, the castling rights, the en-passant file and the hash
   of the board, and the board hash, the halfmove count, the draw flag, the
   encountered boards and the state stack of the Position. *)
C10_RejectedMoveChangesNothing ==
    /\ (component = "board" /\ board_op.op = "do_move" /\ ~board_op.ok) =>
           /\ rejectable(board_op.P, board_op.m, FALSE)
           /\ position_of(board) = position_of(board_op.P)
           /\ board._occupied = board_op.P._occupied
           /\ board._hash = board_op.P._hash
    /\ (component = "position" /\ node_op.op = "do_move" /\ ~node_op.ok) =>
           /\ rejectable(node_op.P.position, node_op.m, node_op.P.repeated_or_rule50)
           /\ position_of(node.position) = position_of(node_op.P.position)
           /\ node.position._occupied = node_op.P.position._occupied
           /\ node.board_hash = node_op.P.board_hash
           /\ node.halfmove_count = node_op.P.halfmove_count
           /\ node.repeated_or_rule50 = node_op.P.repeated_or_rule50
           /\ node.encountered_boards = node_op.P.encountered_boards
           /\ node.state_stack = node_op.P.state_stack

(* A null move has been rejected in a position that is a draw by the rule of fifty
   moves. *)
C10_Witness ==
    /\ component = "position"
    /\ node_op.op = "do_move"
    /\ ~node_op.ok
    /\ is_null(node_op.m)
    /\ node_op.P.repeated_or_rule50
    /\ checkers(node_op.P.position) = {}

(* C11: the hash is maintained incrementally: the hash of a Board, and the board hash
   of a Position (its hash before the move xor the hash delta do_move has returned),
   equal the hash calc_hash computes from scratch for the board reached, after any
   sequence of do_move and undo_move. *)
C11_HashIncremental ==
    /\ (component = "board" /\ board /= None) => board._hash = calc_hash(board)
    /\ (component = "position" /\ node /= None) => node.board_hash = calc_hash(node.position)

(* A Position has castled, which moves two pieces and ends two castling rights, and
   its board hash is that of the board reached. *)
C11_Witness ==
    /\ component = "position"
    /\ node_op.op = "do_move"
    /\ node_op.ok
    /\ node_op.m.move_type = MOVE_CASTLING
    /\ node.board_hash = calc_hash(node.position)
    /\ node.board_hash /= node_op.P.board_hash

(* The invariants of a board, as the specification lists them. *)
board_invariants(b) ==
    /\ b.color[WHITE] \cap b.color[BLACK] = {}
    /\ UNION {b.piece_type[piece] : piece \in KING..PAWN} = b.color[WHITE] \cup b.color[BLACK]
    /\ \A color \in WHITE..BLACK : Cardinality(b.piece_type[KING] \cap b.color[color]) = 1
    /\ \A s \in b.piece_type[PAWN] : rank(s) \notin {0, 7}
    /\ \A color \in WHITE..BLACK, side \in 0..1 :
           can_castle(b.castling, color, side) =>
               /\ 56 * color + 4 \in b.piece_type[KING] \cap b.color[color]
               /\ 56 * color + 7 * side \in b.piece_type[ROOK] \cap b.color[color]
    /\ \A s \in b.piece_type[KING] \cap b.color[1 - b.to_move] :
           attacks_to(b, b.to_move, s) = EMPTY_SET

(* C12: after every do_move that has succeeded and after every undo_move the board
   invariants hold: the colours are disjoint, the piece types fill exactly the squares
   of the two colours, each side has one king, no pawn stands on the first or the last
   rank, a castling right has its king and its rook at home, and the side that is not
   to move is not in check. *)
C12_BoardInvariants ==
    /\ (component = "board" /\ (board_op.op = "undo_move" \/ (board_op.op = "do_move" /\ board_op.ok)))
           => board_invariants(board)
    /\ (component = "position" /\ (node_op.op = "undo_move" \/ (node_op.op = "do_move" /\ node_op.ok)))
           => board_invariants(node.position)

(* The king has stepped out of the way of its rook: the move has ended both castling
   rights of its side, and has not left the king attacked. *)
C12_Witness ==
    /\ component = "board"
    /\ board_op.op = "do_move"
    /\ board_op.ok
    /\ board_op.m.piece = KING
    /\ board_op.m.move_type = MOVE_NORMAL
    /\ get_for(board_op.P.castling, board_op.P.to_move) /= 0
    /\ get_for(board.castling, board_op.P.to_move) = 0
    /\ board_invariants(board)

(* C13: whenever a position is drawn by repetition or by rule-50, its search-node
   hash is the constant 1, whatever its board, its halfmove clock and the boards
   repeated before its root, so that all such positions have the same hash. *)
C13_DrawnHashIsOne ==
    (node /= None /\ node.repeated_or_rule50) => Position_hash(node) = hash_one

(* A move played on the eve of the fiftieth move has made a draw by rule-50: the
   halfmove clock is past the threshold of the hash and the board has keys of its
   own, and the hash is 1. *)
C13_Witness ==
    /\ node /= None /\ node.repeated_or_rule50
    /\ node_op.op = "do_move" /\ node_op.ok /\ ~node_op.P.repeated_or_rule50
    /\ Last(node.state_stack).halfmove_clock >= HALFMOVE_CLOCK_THRESHOLD
    /\ node.board_hash /= {}
    /\ Position_hash(node) = hash_one
    /\ Position_hash(node_op.P) /= hash_one

(* The playing history ends with the same L moves played twice from the board of
   the Position, each time coming back to it: the board occurs for the third time. *)
three_fold_cycle(L) ==
    LET len == Len(node_history)
    IN  /\ 2 * L <= len
        /\ node_history[len - 2 * L + 1].board = calc_hash(node.position)
        /\ node_history[len - L + 1].board = calc_hash(node.position)
        /\ \A k \in 1..L : node_history[len - 2 * L + k].m = node_history[len - L + k].m

(* C14: in a three-fold cycle, at the third occurrence of the position
   evaluate_final returns 0 and generate_moves yields the empty set, wherever in
   the cycle the Position was created from the playing history. *)
C14_ThirdOccurrence ==
    (/\ node /= None /\ node_op.op = "do_move" /\ node_op.ok
     /\ \E L \in 1..Len(node_history) : three_fold_cycle(L))
        => /\ SearchNode_evaluate_final(node) = 0
           /\ SearchNode_generate_moves(node) = {}

(* A cycle of four moves has been played twice, its first round and part of its
   second before the Position was created: the move that completes it is played on
   a Position that generates moves, and reaches one that generates none though its
   board has moves. *)
C14_Witness ==
    /\ component = "history" /\ node /= None
    /\ node_op.op = "do_move" /\ node_op.ok
    /\ three_fold_cycle(4)
    /\ Len(node_history) - Len(node_played) \in 5..7
    /\ SearchNode_generate_moves(node_op.P) /= {}
    /\ generate_moves(node.position, TRUE) /= {}
    /\ SearchNode_generate_moves(node) = {}
    /\ SearchNode_evaluate_final(node) = 0

(* The positions the Position has been in since it was created, `plies` plies or
   more before the one it is in, whose board is the board it has now; an
   irreversible move since would have changed the board for good. *)
earlier_occurrences(plies) ==
    {i \in DOMAIN node_played :
        /\ Len(node_played) - i + 1 >= plies
        /\ calc_hash(node_played[i].P.position) = calc_hash(node.position)}

(* C15 as stated: a position reached by do_move that repeats an earlier position
   since the last irreversible move is a draw at this second occurrence, and no
   moves are generated for it. Two null moves in a row refute it. *)
C15_SecondOccurrence ==
    (/\ node /= None /\ node_op.op = "do_move" /\ node_op.ok
     /\ earlier_occurrences(1) /= {})
        => /\ node.repeated_or_rule50
           /\ SearchNode_generate_moves(node) = {}

(* C15, amended: a position reached by do_move that repeats a position the search
   node has been in four or more plies earlier since the last irreversible move is
   a draw at this second occurrence: no moves are generated for it, so a line of
   play cannot continue past it. *)
C15_SecondOccurrenceFourPlies ==
    (/\ node /= None /\ node_op.op = "do_move" /\ node_op.ok
     /\ earlier_occurrences(4) /= {})
        => /\ node.repeated_or_rule50
           /\ SearchNode_generate_moves(node) = {}

(* Four moves have brought back the board the Position was created with, which has
   not occurred before: the second occurrence is a draw and generates no moves,
   though the board has moves and the position before it was no draw. *)
C15_Witness ==
    /\ node /= None /\ node_op.op = "do_move" /\ node_op.ok
    /\ earlier_occurrences(4) = {1}
    /\ Cardinality({i \in DOMAIN node_history :
                        node_history[i].board = calc_hash(node.position)}) = 1
    /\ \A i \in DOMAIN node_played : ~is_null(node_played[i].m)
    /\ ~node_op.P.repeated_or_rule50
    /\ node.repeated_or_rule50
    /\ generate_moves(node.position, TRUE) /= {}
    /\ SearchNode_generate_moves(node) = {}

(* C16: a search node newly created by from_history is never deemed a draw due to
   repetition or rule-50, whatever the playing history: the moves of its board are
   generated for it, and its hash is not the hash of the draws. *)
C16_RootIsNoDraw ==
    (node /= None /\ node_op.op = "from_history")
        => /\ ~node.repeated_or_rule50
           /\ SearchNode_generate_moves(node) = generate_moves(node.position, TRUE)
           /\ Position_hash(node) /= hash_one

(* test_create_repeated: the history g4f3 g1f1 f3g4 f1g1 g4f3 g1f1 f3g4 ends on a
   board that has occurred in it, after a board that has occurred twice, and five
   moves are generated for the Position. *)
C16_Witness ==
    /\ node /= None /\ node_op.op = "from_history" /\ node_op.ok
    /\ Len(node_history) = Len(KingsCycle)
    /\ \E i \in DOMAIN node_history : node_history[i].board = calc_hash(node.position)
    /\ \E i, j \in DOMAIN node_history : i < j /\ node_history[i].board = node_history[j].board
    /\ node.repeated_boards_hash /= {}
    /\ Cardinality(SearchNode_generate_moves(node)) = 5

(* A move has just been played on a position that was no draw, and the board it has
   reached has not occurred before: a draw now is a draw by rule-50. *)
played_on_no_draw ==
    /\ node /= None /\ node_op.op = "do_move" /\ node_op.ok
    /\ ~node_op.P.repeated_or_rule50
    /\ \A i \in DOMAIN node_history : node_history[i].board /= calc_hash(node.position)

(* The halfmove clock of the position the move was played on had reached 99, and
   the move neither advances a pawn nor captures. *)
clock_has_reached_99 ==
    /\ Last(node_op.P.state_stack).halfmove_clock = 99
    /\ node_op.m.piece /= PAWN
    /\ node_op.m.captured_piece = NO_PIECE

(* The side to move is checkmated: it is in check and none of its moves can be
   played. *)
checkmated ==
    /\ checkers(node.position) /= EMPTY_SET
    /\ \A m \in generate_moves(node.position, TRUE) : ~Board_do_move(node.position, m).ok

(* C17: a position is drawn by rule-50 when the halfmove clock has reached 99 and
   the move played does not deliver checkmate, and only then; a position in which
   the side to move is checkmated is not treated as a rule-50 draw, it is lost. *)
C17_Rule50 ==
    played_on_no_draw
        => /\ node.repeated_or_rule50 <=> (clock_has_reached_99 /\ ~checkmated)
           /\ (clock_has_reached_99 /\ ~checkmated)
                 => /\ SearchNode_evaluate_final(node) = 0
                    /\ SearchNode_generate_moves(node) = {}
           /\ checkmated => SearchNode_evaluate_final(node) = VALUE_MIN

(* The rook has delivered checkmate with the halfmove clock at 99: the position is
   no draw, and its final value is that of a lost position. *)
C17_Witness ==
    /\ played_on_no_draw /\ clock_has_reached_99 /\ checkmated
    /\ node_op.m.piece = ROOK
    /\ Last(node.state_stack).halfmove_clock = 99
    /\ ~node.repeated_or_rule50
    /\ SearchNode_evaluate_final(node) = VALUE_MIN

(* C18: the halfmove clock of a search node is capped at 99: it never exceeds 99
   after creation from any FEN string or playing history and after any sequence of
   do_move and undo_move, at the position the node is in and at those it goes
   back to. *)
C18_ClockCapped ==
    node /= None => \A i \in DOMAIN node.state_stack : node.state_stack[i].halfmove_clock \in 0..99

(* A Position created from a FEN string with the halfmove clock at 100 has played
   a move that neither advances a pawn nor captures: the clock was 99 and is 99. *)
C18_Witness ==
    /\ node /= None /\ node_op.op = "do_move" /\ node_op.ok
    /\ Len(node.encountered_boards) > 100
    /\ node_op.m.piece /= PAWN /\ node_op.m.captured_piece = NO_PIECE
    /\ Last(node_op.P.state_stack).halfmove_clock = 99
    /\ Last(node.state_stack).halfmove_clock = 99

(* C19: the initial half-width of the aspiration window, used at the start of
   every depth iteration, is 16: whenever serve_deepening starts the search of a
   depth, delta is 16, and from depth 5 on the window is the value of the depth
   before, 16 less and 16 more, within the bounds of the command. *)
C19_InitialDelta ==
    [][(component = "threads" /\ pc \in {"recv", "completed"} /\ pc' = "report")
          => /\ delta' = 16
             /\ current_depth' >= 5
                   => <<alpha', beta'>> =
                          checked_window(cmd', max(cmd'.lower_bound, current_value' - 16),
                                         min(current_value' + 16, cmd'.upper_bound))]_vars

(* The aspiration searcher takes the done report of a search that has failed and
   runs the search again: what it returns is not done. *)
aspiration_failure ==
    /\ component = "aspiration"
    /\ aspirated_reports /= <<>> /\ Head(aspirated_reports).done
    /\ aspiration_report' /= None /\ ~aspiration_report'.done

(* C20: after each aspiration failure delta becomes delta + 3 * delta / 8 (integer
   division); once the result exceeds the cap of 1500, delta jumps to one million.
   The window is widened by the delta of before the failure. *)
C20_DeltaGrowth ==
    [][aspiration_failure
          => /\ aspiration_searcher'.delta =
                    IF aspiration_searcher.delta + (3 * aspiration_searcher.delta) \div 8 > 1500
                    THEN 1000000
                    ELSE aspiration_searcher.delta + (3 * aspiration_searcher.delta) \div 8
             /\ \/ /\ aspiration_searcher'.beta = aspiration_searcher.beta
                   /\ aspiration_searcher'.alpha =
                          max(Head(aspirated_reports).value - aspiration_searcher.delta,
                              aspiration_searcher.params.lower_bound)
                \/ /\ aspiration_searcher'.alpha = aspiration_searcher.alpha
                   /\ aspiration_searcher'.beta =
                          min(Head(aspirated_reports).value + aspiration_searcher.delta,
                              aspiration_searcher.params.upper_bound)]_vars

(* The search has failed sixteen times, each time at the bound of its window: delta
   has grown from 16 past 1500 and is one million, the window reaches down to the
   lower bound of the search, and the search runs again. *)
C20_Witness ==
    /\ component = "aspiration"
    /\ aspiration_searcher.delta = 1000000
    /\ aspiration_searcher.alpha = aspiration_searcher.params.lower_bound
    /\ aspiration_searcher.beta = 16
    /\ aspirated.searching
    /\ aspiration_report /= None /\ ~aspiration_report.done

(* C21: when a multi-PV search completes, the aggregate result of the root is
   written to the transposition table with the best value found; a fail-low
   result (best value <= alpha) obtained while not every legal move of the
   root was among the considered moves is stored with bound type none. *)
multipv_result_written ==
    /\ component = "multipv"
    /\ multipv_pc = "idle"
    /\ multipv_report # None
    /\ multipv_report.done
    /\ ~multipv.search_is_terminated
    /\ multipv.current_move_index > 0

C21_FailLowOfSubsetIsBoundNone ==
    multipv_result_written =>
        /\ multipv_stored # None
        /\ multipv_stored.value = multipv.values[1]
        /\ multipv_stored.depth = multipv.params.depth
        /\ (/\ multipv.values[1] <= multipv.params.lower_bound
            /\ Len(multipv.params.searchmoves) < Cardinality(RootMoves))
               => multipv_stored.bound = "BOUND_NONE"

C21_Witness ==
    /\ multipv_result_written
    /\ multipv.values[1] <= multipv.params.lower_bound
    /\ Len(multipv.params.searchmoves) < Cardinality(RootMoves)
    /\ multipv_stored.bound = "BOUND_NONE"

(* C22: for every position and all bounds alpha < beta, the value the quiescence
   search returns lies within VALUE_EVAL_MIN..VALUE_EVAL_MAX. *)
C22_QuiescenceBound ==
    (component = "quiescence" /\ qresult # None) =>
        /\ qresult.lower_bound < qresult.upper_bound
        /\ qresult.value >= VALUE_EVAL_MIN
        /\ qresult.value <= VALUE_EVAL_MAX

(* The search of a position with a move to try has been given a window that lies
   beyond VALUE_EVAL_MAX, and has returned VALUE_EVAL_MAX. *)
C22_Witness ==
    /\ component = "quiescence"
    /\ qresult # None
    /\ ~qresult.repeated_or_rule50
    /\ qresult.lower_bound > VALUE_EVAL_MAX
    /\ qresult.searched_nodes > 0
    /\ qresult.value = VALUE_EVAL_MAX

(* C23: during the extraction of the primary variation every leaf value read from
   the transposition table is clamped into -9999..9999 (a value above 9999 becomes
   9999, a value below -9999 becomes -9999), and the bound is adjusted accordingly:
   a chopped lower bound above 9999, or a chopped upper bound below -9999, becomes
   exact. *)
C23_LeafValueClamped ==
    (component = "variation" /\ pv_variation # None /\ pv_variation.variation.read # VALUE_UNKNOWN) =>
        LET v == pv_variation.variation
        IN  /\ v.leaf_value = (IF v.read > 9999 THEN 9999 ELSE IF v.read < -9999 THEN -9999 ELSE v.read)
            /\ v.leaf_bound = (IF v.read > 9999 /\ v.read_bound = "BOUND_LOWER" THEN "BOUND_EXACT"
                               ELSE IF v.read < -9999 /\ v.read_bound = "BOUND_UPPER" THEN "BOUND_EXACT"
                               ELSE v.read_bound)

(* C24: try_move_digest is consistent with generate_moves: for every move m that
   generate_moves yields on a board, try_move_digest(m.digest()) is m; and for every
   16-bit value that is not the digest of such a move, try_move_digest returns
   none. *)
C24_TryMoveDigestConsistent ==
    (component = "digest" /\ board /= None) =>
        LET generated_moves == generate_moves(board, TRUE)
            digests == {Move_digest(m) : m \in generated_moves}
        IN  /\ \A m \in generated_moves : try_move_digest(board, Move_digest(m)) = m
            /\ \A move_digest \in 0..65535 :
                   move_digest \notin digests => try_move_digest(board, move_digest) = None

(* C25: every move that generate_moves yields for a piece other than the king is
   legal: do_move accepts it, and it does not leave the king of the side that has
   moved attacked. *)
non_king_moves(b) == {m \in generate_moves(b, TRUE) : m.piece /= KING}

C25_GeneratedNonKingMovesAreLegal ==
    (component \in {"board", "digest"} /\ board /= None) =>
        \A m \in non_king_moves(board) :
            \E r \in {Board_do_move(generated(board), m)} :
                /\ r.ok
                /\ attacks_to(r.board, r.board.to_move,
                              CHOOSE s \in r.board.piece_type[KING] \cap r.board.color[board.to_move] : TRUE) = {}

(* generate_moves has yielded a move of a pinned pawn. *)
C25_Witness ==
    /\ component = "digest"
    /\ board /= None
    /\ \E m \in non_king_moves(board) : m.orig_square \in find_pinned(board)

(* C26: do_move rejects a null move if and only if the side to move is in check; a
   null move that is played changes the side to move and clears the en-passant file,
   and leaves the placement of the pieces and the castling rights as they were. *)
null_move_tried == component \in {"board", "digest"} /\ board_op.op = "do_move" /\ is_null(board_op.m)

C26_NullMove ==
    null_move_tried =>
        /\ board_op.m = null_move(board_op.P)
        /\ board_op.ok <=> attacks_to(board_op.P, 1 - board_op.P.to_move, king_square(board_op.P)) = {}
        /\ board_op.ok =>
               /\ board.to_move = 1 - board_op.P.to_move
               /\ board.en_passant_file = NO_ENPASSANT_FILE
               /\ board.piece_type = board_op.P.piece_type
               /\ board.color = board_op.P.color
               /\ board.castling = board_op.P.castling

(* A null move has been played on a board with a passing pawn and castling rights. *)
C26_Witness ==
    /\ null_move_tried
    /\ board_op.ok
    /\ board_op.P.en_passant_file /= NO_ENPASSANT_FILE
    /\ board_op.P.castling /= 0

(* C27: after Search::reset the search is in the state it had when it was created:
   the root position, the ply of the move stack, the empty node-state stack and the
   node counters, whether the run before it has completed or was terminated. *)
C27_ResetRestores ==
    (component = "search" /\ search_pc = "reset") =>
        /\ position = <<>>
        /\ moves = <<{}>>
        /\ state_stack = <<>>
        /\ unreported_nodes = 0

(* C28: at every interior node the first legal move is searched with the full window
   (-beta, -alpha); every later move is first searched with the null window
   (-alpha - 1, -alpha), and searched again with the full window if and only if the
   value of that probe is greater than alpha. *)
C28_PrincipalVariationWindows ==
    [][component = "search" =>
          /\ (stack /= <<>> /\ Len(stack') = Len(stack) + 1) =>
                 LET f == Last(stack)
                     c == Last(stack')
                     called == stack'[Len(stack)]
                 IN  /\ c.pc = "begin" /\ c.depth = f.depth - 1
                     /\ f.no_moves_yet => c.alpha = -f.beta /\ c.beta = -f.alpha /\ called.window = "full"
                     /\ ~f.no_moves_yet => c.alpha = -f.alpha - 1 /\ c.beta = -f.alpha /\ called.window = "null"
          /\ (Len(stack) >= 2 /\ Last(stack).pc = "return") =>
                 LET f == stack[Len(stack) - 1]
                     probe == f.window = "null"
                     searched_again == Len(stack') = Len(stack)
                 IN  /\ searched_again <=> (probe /\ -Last(stack).value > f.alpha)
                     /\ searched_again =>
                            /\ Last(stack').pc = "begin" /\ Last(stack').depth = f.depth - 1
                            /\ Last(stack').alpha = -f.beta /\ Last(stack').beta = -f.alpha]_vars

(* A move that is not the first of its node is searched again with the full window,
   its probe having returned a value above alpha. *)
C28_Witness ==
    /\ component = "search"
    /\ \E i \in 1..(Len(stack) - 1) :
           /\ stack[i].window = "research"
           /\ stack[i].pc = "called"
           /\ Len(stack[i].played) >= 2
           /\ stack[i + 1].alpha = -stack[i].beta

(* C29: within one node each move is played at most once; the move of the
   transposition table, if it can be played, is played first, and is not among the
   generated moves played after it. *)
C29_MovePlayedOnce ==
    component = "search" =>
        \A i \in 1..Len(stack) :
            LET played == stack[i].played
            IN  /\ \A j, k \in 1..Len(played) : played[j] = played[k] => j = k
                /\ (/\ played /= <<>>
                    /\ i <= Len(state_stack)
                    /\ state_stack[i].entry.move16 /= 0
                    /\ legal(stack[i].entered.position, state_stack[i].entry.move16))
                       => played[1] = state_stack[i].entry.move16

(* A node has played the move of the transposition table and then a generated
   move. *)
C29_Witness ==
    /\ component = "search"
    /\ \E i \in 1..Len(stack) :
           /\ i <= Len(state_stack)
           /\ Len(stack[i].played) >= 2
           /\ stack[i].played[1] = state_stack[i].entry.move16

(* C30: every call of run that returns normally leaves the move stack at the ply, the
   node-state stack at the length and the position it has found when it was
   entered. *)
C30_RunRestores ==
    /\ (component = "search" /\ stack /= <<>> /\ Last(stack).pc = "return") =>
           /\ Last(stack).entered /= None
           /\ Len(moves) = Last(stack).entered.ply
           /\ Len(state_stack) = Last(stack).entered.states
           /\ position = Last(stack).entered.position
    /\ (component = "search" /\ search_pc = "ok") =>
           /\ Len(moves) = 1
           /\ state_stack = <<>>
           /\ position = <<>>

(* A call below the root returns normally after it has played two moves and taken
   them back. *)
C30_Witness ==
    /\ component = "search"
    /\ Len(stack) >= 2
    /\ Last(stack).pc = "return"
    /\ Len(Last(stack).played) >= 2

(* The moves a search node offers to its caller: those of its generate_moves and its
   null move (search_node.rs lines 163-171: no other move may be passed to
   do_move). *)
offered(S) == SearchNode_generate_moves(S) \cup {null_move(S.position)}

(* Whether the node `n` is the search node S again, and answers as S does. *)
restored(n, S) ==
    /\ position_of(n.position) = position_of(S.position)
    /\ n.position._occupied = S.position._occupied
    /\ n.board_hash = S.board_hash
    /\ n.halfmove_count = S.halfmove_count
    /\ n.state_stack = S.state_stack
    /\ n.encountered_boards = S.encountered_boards
    /\ n.repeated_boards_hash = S.repeated_boards_hash
    /\ n.repeated_or_rule50 = S.repeated_or_rule50
    /\ Position_hash(n) = Position_hash(S)
    /\ SearchNode_generate_moves(n) = SearchNode_generate_moves(S)
    /\ SearchNode_evaluate_final(n) = SearchNode_evaluate_final(S)

(* C31: for every search node S and every move it offers that do_move has played, the
   undo_move of that move restores S: the board, the board hash, the halfmove clock,
   the history of the encountered boards and the flag of the draw by repetition or by
   the rule of fifty moves, so that hash, generate_moves and evaluate_final answer as
   they did before the do_move. *)
C31_UndoRestoresNode ==
    [][(/\ component \in {"position", "history"}
        /\ node_played /= <<>>
        /\ node_played' = Pop(node_played)
        /\ Last(node_played).m \in offered(Last(node_played).P))
           => restored(node', Last(node_played).P)]_vars

(* A move played on the eve of the fiftieth move, which has made the position a draw,
   has been taken back. *)
C31_Witness ==
    /\ component = "position"
    /\ node_op.op = "undo_move"
    /\ node_op.m.move_type = MOVE_NORMAL
    /\ Last(node.state_stack).halfmove_clock = 99
    /\ ~node.repeated_or_rule50
    /\ checkers(node.position) = {}

(* The numbers of plies back at which do_move looks for the board of the node `n` it
   has reached: 4, 6, ... as far as the halfmove clock reaches, and nowhere when the
   clock is below 4. *)
scanned_plies(n) ==
    {k \in 4..Len(n.encountered_boards) :
        k % 2 = 0 /\ k <= Last(n.state_stack).halfmove_clock}

(* Whether the board of `n` is the board encountered at one of these plies. *)
scan_matches(n) ==
    \E k \in scanned_plies(n) :
        n.encountered_boards[Len(n.encountered_boards) - k + 1] = n.board_hash

(* C32: once do_move has updated the board, and if the halfmove clock is 4 or more,
   the boards encountered are looked at 4, 6, 8, ... plies back, as far back as the
   last irreversible move and no further; a match marks the position as a draw, and
   short of the fiftieth move nothing else does. *)
C32_RepetitionScan ==
    (node /= None /\ node_op.op = "do_move" /\ node_op.ok) =>
        /\ scan_matches(node) => node.repeated_or_rule50
        /\ (/\ ~node_op.P.repeated_or_rule50
            /\ (Last(node_op.P.state_stack).halfmove_clock < 99
                \/ is_pawn_advance_or_capure(node_op.m)))
               => (node.repeated_or_rule50 <=> scan_matches(node))

(* A move has brought back the board of four plies before, at a halfmove clock of 6
   or more, on a node that was no draw: the node reached is one. *)
C32_Witness ==
    /\ component = "history" /\ node /= None
    /\ node_op.op = "do_move" /\ node_op.ok
    /\ ~node_op.P.repeated_or_rule50
    /\ Last(node.state_stack).halfmove_clock >= 6
    /\ Cardinality(scanned_plies(node)) >= 2
    /\ scan_matches(node)
    /\ node.repeated_or_rule50

(* The Search commands serve_deepening has handed to its slave and the slave has not
   done with. *)
handed_to_slave ==
    {slave_commands[i] : i \in DOMAIN slave_commands} \cup {slave_pending, slave_cmd}

(* Whether the window (a, b) is not empty and lies within the bounds of the search
   parameters `params`. *)
window_within(a, b, params) ==
    a < b /\ params.lower_bound <= a /\ b <= params.upper_bound

(* C33: every search the aspiration layer hands to the lower searcher has a window
   whose lower bound is below its upper bound and which lies within the bounds of
   the search it serves, at first and after every widening: the commands of
   serve_deepening to its slave, and the searches AspirationSearcher starts. *)
C33_WindowWithinBounds ==
    /\ component = "threads" =>
           \A s \in handed_to_slave :
               s.type = "Search" => window_within(s.lower_bound, s.upper_bound, cmd)
    /\ (component = "aspiration" /\ aspirated.params /= None) =>
           window_within(aspirated.params.lower_bound, aspirated.params.upper_bound,
                         aspiration_searcher.params)

(* The depth 4 of a search within (-20, 20) has returned 40: the window of depth 5
   around it would be empty, and the slave is handed the bounds of the search. *)
C33_Witness ==
    /\ component = "threads"
    /\ pc = "report"
    /\ current_depth = 5
    /\ current_value = 40
    /\ cmd.upper_bound = 20
    /\ \E s \in handed_to_slave :
           s.type = "Search" /\ s.depth = 5 /\ s.lower_bound = -20 /\ s.upper_bound = 20

(* The steps in which an aspiration layer answers a completed search of its lower
   searcher: serve_deepening at the end of 'report with no command pending, and
   AspirationSearcher::try_recv_report on a done report of a search that was not
   terminated. *)
slave_search_completed ==
    /\ component = "threads" /\ pc = "reported" /\ pc' /= "reported"
    /\ slave_report.done /\ pending_command = None
aspirated_search_completed ==
    /\ component = "aspiration" /\ aspirated_reports /= <<>>
    /\ aspirated_reports' = Tail(aspirated_reports)
    /\ Head(aspirated_reports).done /\ ~aspiration_searcher.search_is_terminated

(* Whether the window (a, b), in which the search has returned v, has got the window
   (a2, b2) that is strictly wider on the side on which v lies, that side not having
   been at the bound of the search parameters. *)
strictly_widened(v, a, b, a2, b2, params) ==
    \/ v <= a /\ params.lower_bound < a /\ a2 < a /\ params.lower_bound <= a2 /\ b2 = b
    \/ v >= b /\ b < params.upper_bound /\ b2 > b /\ b2 <= params.upper_bound /\ a2 = a

(* Whether the side of the window (a, b) on which v lies is at the bound of the
   search parameters. *)
side_at_bound(v, a, b, params) ==
    \/ v <= a /\ a = params.lower_bound
    \/ v >= b /\ b = params.upper_bound

(* C34 as stated: every re-search of a depth follows a failure that has strictly
   widened the window on the failing side, and a result on a side that has reached
   the bound of the search is accepted; so that, the lower searches completing, a
   depth is searched finitely many times. *)
C34_EveryFailureWidens ==
    [][/\ slave_search_completed =>
              /\ pc' = "report" =>
                     strictly_widened(slave_report.value, alpha, beta, alpha', beta', cmd)
              /\ side_at_bound(slave_report.value, alpha, beta, cmd) => pc' = "completed"
       /\ aspirated_search_completed =>
              /\ aspirated'.searching =>
                     strictly_widened(Head(aspirated_reports).value,
                                      aspiration_searcher.alpha, aspiration_searcher.beta,
                                      aspiration_searcher'.alpha, aspiration_searcher'.beta,
                                      aspiration_searcher.params)
              /\ side_at_bound(Head(aspirated_reports).value, aspiration_searcher.alpha,
                               aspiration_searcher.beta, aspiration_searcher.params)
                     => ~aspirated'.searching /\ aspiration_report'.done]_vars

(* Whether the AspirationSearcher is in the mode of the late move reductions and has
   searched expecting a fail high, which has not come. *)
reduced_search_failed(self, v) ==
    self.lmr_mode /\ self.expected_to_fail_high /\ v <= self.alpha

(* C34, amended: every re-search of a depth follows a failure that has strictly
   widened the window on the failing side, or, in the mode of the late move
   reductions, a search expected to fail high that has not: that search is repeated
   with a window that is not narrower and is expected to fail high no more, so this
   happens once for a search at most. Else a result on a side that has reached the
   bound of the search is accepted. *)
C34_FailureWidensOrFullDepth ==
    [][/\ slave_search_completed =>
              /\ pc' = "report" =>
                     strictly_widened(slave_report.value, alpha, beta, alpha', beta', cmd)
              /\ side_at_bound(slave_report.value, alpha, beta, cmd) => pc' = "completed"
       /\ aspirated_search_completed =>
              LET v == Head(aspirated_reports).value
                  self == aspiration_searcher
              IN  /\ aspirated'.searching =>
                         /\ ~aspiration_searcher'.expected_to_fail_high
                         /\ aspiration_searcher'.params = self.params
                         /\ aspirated'.params.depth = self.params.depth
                         /\ \/ strictly_widened(v, self.alpha, self.beta,
                                                aspiration_searcher'.alpha,
                                                aspiration_searcher'.beta, self.params)
                            \/ /\ reduced_search_failed(self, v)
                               /\ aspiration_searcher'.alpha <= self.alpha
                               /\ aspiration_searcher'.beta = self.beta
                  /\ (side_at_bound(v, self.alpha, self.beta, self.params)
                      /\ ~reduced_search_failed(self, v))
                         => ~aspirated'.searching /\ aspiration_report'.done]_vars

(* In the mode of the late move reductions the search of the window (-51, -50), which
   was expected to fail high, has failed low, and the same window is searched again
   at the depth asked. *)
C34_Witness ==
    /\ component = "aspiration"
    /\ aspirated.searching
    /\ aspiration_searcher.lmr_mode
    /\ ~aspiration_searcher.expected_to_fail_high
    /\ aspiration_searcher.delta > 51
    /\ aspiration_searcher.params.lower_bound = -51
    /\ aspirated.params.lower_bound = -51
    /\ aspirated.params.upper_bound = -50
    /\ aspirated.params.depth = aspiration_searcher.params.depth

(* Whether the queue q2 is the queue q with nothing taken from it. *)
nothing_taken(q, q2) == Len(q2) >= Len(q) /\ SubSeq(q2, 1, Len(q)) = q

(* C35: a command that arrives while a search is running is not lost: it is taken
   from the channel as the pending command while the search runs, and the search is
   stopped; as long as it is pending no command is taken from the channel and no
   other search is begun; it is executed at the head of the loop, once the done
   report of the search has been sent. So serve_deepening, which stops its slave
   with a Stop command, and so serve_simple, which ends its search itself. *)
C35_PendingCommandKept ==
    [][component = "threads" =>
          /\ (pending_command = None /\ pending_command' /= None) =>
                 /\ pc = "reported" /\ ~slave_report.done
                 /\ commands /= <<>>
                 /\ pending_command' = Head(commands)
                 /\ commands' = Tail(commands)
                 /\ slave_commands' = Append(slave_commands, Stop)
          /\ (pending_command /= None /\ pending_command' = pending_command) =>
                 /\ nothing_taken(commands, commands')
                 /\ cmd' = cmd
                 /\ pc' /= "completed"
          /\ (pending_command /= None /\ pending_command' /= pending_command) =>
                 /\ pc = "recv"
                 /\ received.last.done /\ received.last.search_id = cmd.search_id
                 /\ pending_command' = None
                 /\ commands' = commands
                 /\ pending_command.type = "Search" => cmd' = pending_command /\ pc' = "report"
                 /\ pending_command.type = "Stop" => slave_commands' = Append(slave_commands, Stop)
                 /\ pending_command.type = "Exit" =>
                        slave_commands' = Append(slave_commands, Exit) /\ pc' = "join"
          /\ (slave_pending = None /\ slave_pending' /= None) =>
                 /\ slave_pc = "search"
                 /\ slave_commands /= <<>>
                 /\ slave_pending' = Head(slave_commands)
                 /\ slave_commands' = Tail(slave_commands)
                 /\ slave_reports' = Append(slave_reports,
                                            Report(slave_cmd.search_id, 0, VALUE_UNKNOWN, TRUE))
                 /\ slave_pc' = "recv"
          /\ (slave_pending /= None /\ slave_pending' = slave_pending) =>
                 /\ nothing_taken(slave_commands, slave_commands')
                 /\ slave_pc' = "recv"
          /\ (slave_pending /= None /\ slave_pending' /= slave_pending) =>
                 /\ slave_pc = "recv"
                 /\ slave_pending' = None
                 /\ slave_commands' = slave_commands
                 /\ slave_pending.type = "Search" => slave_pc' = "search" \/ slave_cmd' = None
                 /\ slave_pending.type = "Exit" => slave_pc' = "exited"]_vars

(* The second Search command has arrived while the first search ran: it is pending,
   the first search is stopped and its done report is about to be sent, and a later
   command waits on the channel. *)
C35_Witness ==
    /\ component = "threads"
    /\ pc = "final"
    /\ pending_command /= None /\ pending_command.type = "Search"
    /\ pending_command.search_id = cmd.search_id + 1
    /\ commands /= <<>>
    /\ received.done_count[cmd.search_id] = 0

(* The command a thread takes at the head of its loop. *)
master_takes == IF pending_command /= None THEN pending_command ELSE Head(commands)
slave_takes == IF slave_pending /= None THEN slave_pending ELSE Head(slave_commands)

(* C36: a Stop that reaches a thread while it is idle, its search having finished,
   is discarded: serve_deepening passes it on to its slave and serve_simple drops
   it, and nothing else changes. A search is ended before its time only by a command
   taken from the channel while it runs, which was sent after the Search command
   that started it; and the Stop that ends a search of the slave is the one its
   master has sent to end that very search. *)
C36_StaleStopDiscarded ==
    [][component = "threads" =>
          /\ (/\ pc = "recv"
              /\ \/ pending_command' /= pending_command
                 \/ commands /= <<>> /\ commands' = Tail(commands)
              /\ master_takes.type = "Stop") =>
                 /\ pc' = "recv"
                 /\ slave_commands' = Append(slave_commands, Stop)
                 /\ pending_command' = None
                 /\ UNCHANGED <<cmd, current_value, current_depth, delta, alpha, beta,
                                received, completed>>
          /\ (/\ slave_pc = "recv"
              /\ \/ slave_pending' /= slave_pending
                 \/ slave_commands /= <<>> /\ slave_commands' = Tail(slave_commands)
              /\ slave_takes.type = "Stop") =>
                 /\ slave_pc' = "recv"
                 /\ slave_reports' = slave_reports
                 /\ slave_cmd' = slave_cmd
                 /\ slave_pending' = None
          /\ (slave_pc = "search" /\ slave_commands /= <<>> /\ Head(slave_commands).type = "Stop") =>
                 /\ pending_command /= None
                 /\ pc \in {"report", "reported"}
                 /\ slave_cmd.depth = current_depth
          /\ (pc /= "final" /\ pc' = "final" /\ current_depth' <= cmd.depth) =>
                 /\ pc = "reported"
                 /\ pending_command /= None
          /\ (slave_reports' /= slave_reports /\ Len(slave_reports') > 0
              /\ Last(slave_reports').done /\ Last(slave_reports').value = VALUE_UNKNOWN
              /\ Len(slave_reports') > Len(slave_reports)) =>
                 /\ slave_pc = "search"
                 /\ slave_commands /= <<>>
                 /\ slave_pending' = Head(slave_commands)]_vars

(* A Stop has reached the slave while it is idle, with the Search command of the
   next search behind it on the channel. *)
C36_Witness ==
    /\ component = "threads"
    /\ slave_pc = "recv"
    /\ slave_pending = None
    /\ Len(slave_commands) >= 2
    /\ slave_commands[1].type = "Stop"
    /\ slave_commands[2].type = "Search"

(* C37: in every report of a deepening search the value is the value of the root
   found by the search that has fully completed at the depth the report names, and
   the unknown value when that depth is 0: no value of a failed aspiration attempt
   and none of a deeper iteration that has not finished is reported. *)
C37_ReportedValueIsCompleted ==
    [][(component \in {"threads", "searcher"} /\ received' /= received) =>
          /\ received'.last.depth = 0 => received'.last.value = VALUE_UNKNOWN
          /\ received'.last.depth = completed'.depth =>
                 received'.last.value = completed'.value]_vars

(* The root moves searched so far, each with the value found for it. *)
searched_moves(self) ==
    {<<self.params.searchmoves[j], self.values[j]>> : j \in 1..self.current_move_index}

values_sorted(self) == \A j \in 2..Len(self.values) : self.values[j - 1] >= self.values[j]

(* `searchmoves` holds every supplied move once; the client supplies the first n
   legal moves of the root in their order. *)
permutation_of_supplied(searchmoves) ==
    /\ {searchmoves[j] : j \in 1..Len(searchmoves)} = 1..Len(searchmoves)
    /\ \A j, k \in 1..Len(searchmoves) : searchmoves[j] = searchmoves[k] => j = k

(* C38: during a multi-PV search the values of the root moves searched so far stay
   sorted in descending order and searchmoves is permuted in parallel: each searched
   move stays paired with the value found for it, the moves not yet searched keep
   their places, and the sorted_moves of the final report is a permutation of the
   supplied searchmoves whose values descend. *)
C38_SortedMoves ==
    [][(/\ component = "multipv"
        /\ multipv' /= multipv
        /\ multipv'.params.searchmoves /= <<0>>) =>
          /\ values_sorted(multipv')
          /\ Len(multipv'.values) = Len(multipv'.params.searchmoves)
          /\ permutation_of_supplied(multipv'.params.searchmoves)
          /\ multipv'.current_move_index = multipv.current_move_index + 1 =>
                /\ searched_moves(multipv') =
                       searched_moves(multipv) \cup
                       {<<multipv.params.searchmoves[multipv.current_move_index + 1],
                          -Head(nested_reports).value>>}
                /\ \A j \in (multipv'.current_move_index + 1)..Len(multipv.values) :
                       multipv'.params.searchmoves[j] = multipv.params.searchmoves[j]
          /\ (multipv_report' /= multipv_report /\ multipv_report'.done
              /\ multipv_report'.depth > 0) =>
                /\ multipv_report'.sorted_moves = multipv'.params.searchmoves
                /\ multipv_report'.value = multipv'.values[1]]_vars

C38_Witness ==
    /\ component = "multipv"
    /\ multipv_pc = "idle"
    /\ multipv_report /= None
    /\ multipv_report.done
    /\ multipv_report.sorted_moves = <<3, 1, 2>>
    /\ multipv.values = <<0, -40, -40>>

(* What extract_pv reads from the entry of the position k moves into the variation:
   the value and the bound from the side of the root, chopped as lines 729-741 chop
   them. *)
pv_entry(k) == peek(pv_tt, SubSeq(pv_variation.variation.moves, 1, k))
pv_our_turn(k) == k % 2 = 0
pv_read(k) == IF pv_our_turn(k) THEN pv_entry(k).value ELSE -pv_entry(k).value
pv_leaf_value(k) == IF pv_read(k) > 9999 \/ pv_read(k) < -9999 THEN 9999 ELSE pv_read(k)
pv_read_bound(k) == IF pv_our_turn(k) THEN pv_entry(k).bound ELSE IF pv_entry(k).bound = "BOUND_UPPER" THEN "BOUND_LOWER" ELSE IF pv_entry(k).bound = "BOUND_LOWER" THEN "BOUND_UPPER" ELSE pv_entry(k).bound
pv_bound(k) == IF pv_read(k) > 9999 /\ pv_read_bound(k) = "BOUND_LOWER" THEN "BOUND_EXACT" ELSE IF pv_read(k) < -9999 /\ pv_read_bound(k) = "BOUND_UPPER" THEN "BOUND_EXACT" ELSE pv_read_bound(k)

(* The move try_move_digest yields and do_move accepts. *)
pv_legal(m) == m = 1

(* C39: extract_pv does not extend the variation from a position that has no entry
   in the transposition table, whose extracted move is not legal, at which the depth
   is reached, or whose leaf value differs from the value of the root by more than 8,
   and it does not extend it beyond a move whose entry has a bound that is not exact;
   so the variation has at most depth moves, each legal where it is played. *)
C39_VariationStops ==
    (component = "variation" /\ pv_variation # None) =>
        LET pv_moves == pv_variation.variation.moves
        IN  /\ Len(pv_moves) <= pv_variation.depth
            /\ \A k \in 1..Len(pv_moves) :
                  /\ pv_entry(k - 1) # None
                  /\ pv_entry(k - 1).bound # "BOUND_NONE"
                  /\ pv_moves[k] = pv_entry(k - 1).move16
                  /\ pv_legal(pv_moves[k])
                  /\ abs(pv_leaf_value(k - 1) - pv_variation.variation.value) <= EPSILON
                  /\ k < Len(pv_moves) => pv_bound(k - 1) = "BOUND_EXACT"

C39_Witness ==
    /\ component = "variation"
    /\ pv_variation # None
    /\ pv_variation.depth = 1
    /\ pv_variation.variation.moves = <<1>>
    /\ pv_tt[<<1>>] # None
    /\ pv_entry(0).bound = "BOUND_EXACT"
    /\ pv_tt[<<1>>].bound = "BOUND_EXACT"
    /\ pv_tt[<<1>>].move16 = 1
    /\ pv_tt[<<1>>].value = pv_tt[<<>>].value

(* C40: once the controller has sent Exit or has closed the command channel,
   serve_deepening passes Exit on to its slave, the slave leaves its loop and
   serve_deepening returns after it has joined the slave, also when a search is
   running at that time: neither thread blocks forever. *)
C40_ExitLeadsToReturn ==
    (component = "threads" /\ controller_pc \in {"exited", "closed"})
        ~> (pc = "exited" /\ slave_pc = "exited")

C40_Witness ==
    /\ component = "threads"
    /\ controller_pc = "exited"
    /\ pc = "exited"
    /\ slave_pc = "exited"
    /\ stops_sent = 0
    /\ next_id = 2
    /\ received.last /= None
    /\ received.last.done
    /\ received.last.depth < MaxDepth

====
